---- MODULE Spec2Model ----
(***************************************************************************)
(* Model of the Rust file-system glue of rust/kernel/fs: the handle        *)
(* wrappers, the trampolines (extern "C" callbacks), the operation-table   *)
(* builders and the registration of a file-system type; and of the parts   *)
(* of rust/kernel/print.rs the glue and its sample print through.          *)
(*                                                                         *)
(* The specifications share the variables:                                 *)
(*   Spec        - the host calls one trampoline after the other;          *)
(*   SpecReg     - register_self / unregister_self against the registry;   *)
(*   SpecTable   - a plugin declares its TO_USE and the tables are built;  *)
(*   SpecWrap    - a handle wrapper is constructed and unwrapped;          *)
(*   SpecPub     - a published table is rebuilt and called through;        *)
(*   SpecDefault - the trampolines of a plugin that overrides nothing;     *)
(*   SpecMem     - create and the host objects behind its arguments;       *)
(*   SpecErr     - errors crossing the boundary in both directions;        *)
(*   SpecConc    - trampolines on concurrent execution contexts;           *)
(*   SpecTerm    - one trampoline invocation step by step, with fairness;  *)
(*   SpecRegConc - register_self on concurrent execution contexts;         *)
(*   SpecAttr    - getattr / setattr and the host objects they are given;  *)
(*   SpecTree    - a fill_super building its files with treedescr!;        *)
(*   SpecLife    - a registration whose FSHandle may be dropped;           *)
(*   SpecPrint   - a rate-limited print call site on concurrent contexts;  *)
(*   SpecPrintLive - the same, with fairness for one context only;         *)
(*   SpecFmt     - rust_fmt_argument writing into [buf, end).              *)
(***************************************************************************)
EXTENDS Integers, Sequences, FiniteSets, TLC

(***************************************************************************)
(* Bounds                                                                  *)
(***************************************************************************)
\* raw pointers are NULL, 1 .. MaxPtr
MaxPtr == 2
\* file_system_type records that can be allocated in one run
MaxRecs == 3
\* capability flags a declared ToUse of the dentry / inode kind sets
MaxSelected == 1
\* execution contexts that run glue code concurrently
NThreads == 2
\* host codes are 0 and the errno-style codes -1 .. -MaxErrno
MaxErrno == 100
\* invocations of the rate-limited call site by one context
MaxPrints == 2
\* width of an address (usize) in bits
AddrBits == 4
\* length of one string handed to write_str, and calls of write_str
MaxStr == 3
MaxPieces == 3

NULL == 0
Ptrs == NULL .. MaxPtr

(***************************************************************************)
(* Error (rust/kernel/error.rs, not part of the sources at hand): a kind   *)
(* out of a fixed enumeration, with its negative errno-style host code.    *)
(***************************************************************************)
ErrorKinds == {"EPERM", "ENOMEM", "EBUSY", "EINVAL", "ENOSYS"}

to_kernel_errno(e) ==
    CASE e = "EPERM"  -> -1
      [] e = "ENOMEM" -> -12
      [] e = "EBUSY"  -> -16
      [] e = "EINVAL" -> -22
      [] e = "ENOSYS" -> -38
      [] OTHER        -> -22

from_kernel_errno(errno) ==
    IF \E k \in ErrorKinds : to_kernel_errno(k) = errno
    THEN CHOOSE k \in ErrorKinds : to_kernel_errno(k) = errno
    ELSE "UNKNOWN"

\* every kind an Error can be: the enumeration and the unknown-error kind
AllErrorKinds == ErrorKinds \cup {"UNKNOWN"}
HostCodes == (0 - MaxErrno) .. 0

\* Result<T>
Ok(v) == [ok |-> TRUE, v |-> v, e |-> "none"]
Err(e) == [ok |-> FALSE, v |-> NULL, e |-> e]

(***************************************************************************)
(* Handle wrappers: from_c_* checks for null, to_c_* gives the pointer back *)
(***************************************************************************)
from_c_inode(c_inode) ==
    IF c_inode = NULL THEN Err("EINVAL") ELSE Ok([c_inode |-> c_inode])
to_c_inode(i) == i.c_inode

\* from_c_dentry without the null check
from_c_dentry_unchecked(c_dentry) == Ok([c_dentry |-> c_dentry])
from_c_dentry(c_dentry) ==
    IF c_dentry = NULL THEN Err("EINVAL") ELSE Ok([c_dentry |-> c_dentry])
to_c_dentry(d) == d.c_dentry

from_c_super_block(c_sb) ==
    IF c_sb = NULL THEN Err("EINVAL") ELSE Ok([c_sb |-> c_sb])
to_c_super_block(sb) == sb.c_sb

from_c_fs_type(c_fs_type) ==
    IF c_fs_type = NULL THEN Err("EINVAL") ELSE Ok([c_fs_type |-> c_fs_type])
to_c_fs_type(t) == t.c_fs_type

from_c_kstatfs(c_kstatfs) ==
    IF c_kstatfs = NULL THEN Err("EINVAL") ELSE Ok([c_kstatfs |-> c_kstatfs])
to_c_kstatfs(k) == k.c_kstatfs

\* from_c_seq_file that forgets to store the pointer in the new wrapper
from_c_seq_file_unset(c_seq_file) ==
    IF c_seq_file = NULL THEN Err("EINVAL") ELSE Ok([c_seq_file |-> NULL])
from_c_seq_file(c_seq_file) ==
    IF c_seq_file = NULL THEN Err("EINVAL") ELSE Ok([c_seq_file |-> c_seq_file])
to_c_seq_file(s) == s.c_seq_file

from_c_user_namespace(c_user_ns) ==
    IF c_user_ns = NULL THEN Err("EINVAL") ELSE Ok([c_user_ns |-> c_user_ns])
to_c_user_namespace(ns) == ns.c_user_ns

\* pub fn default() of each wrapper: a wrapper around the null pointer
Dentry_default == [c_dentry |-> NULL]
Inode_default == [c_inode |-> NULL]
SuperBlock_default == [c_sb |-> NULL]
FSType_default == [c_fs_type |-> NULL]
KStatFs_default == [c_kstatfs |-> NULL]
SeqFile_default == [c_seq_file |-> NULL]
UserNameSpace_default == [c_user_ns |-> NULL]

WrapperKinds ==
    {"Dentry", "Inode", "SuperBlock", "FSType", "KStatFs", "SeqFile",
     "UserNameSpace"}
\* X::default(), X::from_c_x(p) and x.to_c_x() of the wrapper kind X
default_of(kind) ==
    CASE kind = "Dentry"        -> Dentry_default
      [] kind = "Inode"         -> Inode_default
      [] kind = "SuperBlock"    -> SuperBlock_default
      [] kind = "FSType"        -> FSType_default
      [] kind = "KStatFs"       -> KStatFs_default
      [] kind = "SeqFile"       -> SeqFile_default
      [] kind = "UserNameSpace" -> UserNameSpace_default
from_c_of(kind, p) ==
    CASE kind = "Dentry"        -> from_c_dentry(p)
      [] kind = "Inode"         -> from_c_inode(p)
      [] kind = "SuperBlock"    -> from_c_super_block(p)
      [] kind = "FSType"        -> from_c_fs_type(p)
      [] kind = "KStatFs"       -> from_c_kstatfs(p)
      [] kind = "SeqFile"       -> from_c_seq_file(p)
      [] kind = "UserNameSpace" -> from_c_user_namespace(p)
to_c_of(kind, w) ==
    CASE kind = "Dentry"        -> to_c_dentry(w)
      [] kind = "Inode"         -> to_c_inode(w)
      [] kind = "SuperBlock"    -> to_c_super_block(w)
      [] kind = "FSType"        -> to_c_fs_type(w)
      [] kind = "KStatFs"       -> to_c_kstatfs(w)
      [] kind = "SeqFile"       -> to_c_seq_file(w)
      [] kind = "UserNameSpace" -> to_c_user_namespace(w)

(***************************************************************************)
(* C strings.  A non-null char pointer p points at the string CStrAt[p];   *)
(* string 0 is the empty string, which c_str!("") also denotes.            *)
(***************************************************************************)
EmptyStr == 0
CStrAt == [p \in 1 .. MaxPtr |-> p - 1]
from_char_ptr(p) == CStrAt[p]
\* the string a trampoline reads through a char pointer that is null
\* (CStr::from_char_ptr on a null pointer) is whatever the build reads
GarbageStrs == 0 .. MaxPtr - 1

(***************************************************************************)
(* What the plugin's method does when it is called: the inputs of a call.  *)
(***************************************************************************)
PluginOk == [tag |-> "Ok", e |-> "none", p |-> NULL]
PluginErr(k) == [tag |-> "Err", e |-> k, p |-> NULL]
PluginPanic == [tag |-> "Panic", e |-> "none", p |-> NULL]
\* a method returning Result
PluginResults == {PluginOk, PluginPanic} \cup {PluginErr(k) : k \in ErrorKinds}
\* a method returning Result<Dentry>; Dentry::default() is public, so the
\* dentry of an Ok may wrap any pointer
PluginDentryResults ==
    {[tag |-> "Ok", e |-> "none", p |-> q] : q \in Ptrs}
        \cup {PluginPanic} \cup {PluginErr(k) : k \in ErrorKinds}
\* a method returning bool
PluginBools ==
    {[tag |-> "True", e |-> "none", p |-> NULL],
     [tag |-> "False", e |-> "none", p |-> NULL], PluginPanic}
\* a method returning ()
PluginUnits == {[tag |-> "Unit", e |-> "none", p |-> NULL], PluginPanic}

(***************************************************************************)
(* What a trampoline call amounts to.                                      *)
(*   calls    how often the plugin's method was invoked                    *)
(*   saw      the pointers inside the handles the plugin received          *)
(*   strs     the strings the plugin received                              *)
(*   ret      what goes back to the host                                   *)
(*   warned   pr_warn! was called                                          *)
(*   helpers  the host helpers called                                      *)
(***************************************************************************)
IntRet(v) == [kind |-> "int", val |-> v]
PtrRet(v) == [kind |-> "ptr", val |-> v]
VoidRet == [kind |-> "void", val |-> 0]
\* a panic (or a fault) inside the trampoline: nothing catches it, the call
\* never returns a value to the host
Fault == [kind |-> "fault", val |-> 0]

NotInvoked(r, w) ==
    [calls |-> 0, saw |-> <<>>, strs |-> <<>>, ret |-> r, warned |-> w,
     helpers |-> <<>>]
Invoked(saw, strs, r) ==
    [calls |-> 1, saw |-> saw, strs |-> strs, ret |-> r, warned |-> FALSE,
     helpers |-> <<>>]

\* the tail of a trampoline that loses the plugin's error kind
IntOfResult_anyErr(out) ==
    IF out.tag = "Panic" THEN Fault
    ELSE IF out.tag = "Err" THEN IntRet(to_kernel_errno("EINVAL"))
    ELSE IntRet(0)

\* if let Err(e) = rs { return e.to_kernel_errno(); }  0
IntOfResult(out) ==
    IF out.tag = "Panic" THEN Fault
    ELSE IF out.tag = "Err" THEN IntRet(to_kernel_errno(out.e))
    ELSE IntRet(0)

\* if let Err(e) = rs { return e.to_kernel_errno() as _; }
\* rs.unwrap().to_c_dentry()
PtrOfResult(out) ==
    IF out.tag = "Panic" THEN Fault
    ELSE IF out.tag = "Err" THEN PtrRet(to_kernel_errno(out.e))
    ELSE PtrRet(to_c_dentry([c_dentry |-> out.p]))

\* the boolean of the plugin, inverted
IntOfBool_inverted(out) ==
    IF out.tag = "Panic" THEN Fault
    ELSE IF out.tag = "True" THEN IntRet(0)
    ELSE IntRet(1)

\* T::f(..) as _   for a method returning bool
IntOfBool(out) ==
    IF out.tag = "Panic" THEN Fault
    ELSE IF out.tag = "True" THEN IntRet(1)
    ELSE IntRet(0)

\* T::f(..);   for a method returning ()
VoidOfUnit(out) ==
    IF out.tag = "Panic" THEN Fault ELSE VoidRet

(***************************************************************************)
(* Trampolines of inode.rs.  Scalar arguments (flags, mode, excl, rdev)    *)
(* are handed to the plugin by plain casts and decide nothing.             *)
(***************************************************************************)
lookup(c_inode, c_dentry, out) ==
    LET inode_rs == from_c_inode(c_inode)
        dentry_rs == from_c_dentry(c_dentry)
    IN  IF ~inode_rs.ok
        THEN NotInvoked(PtrRet(to_kernel_errno(inode_rs.e)), TRUE)
        ELSE IF ~dentry_rs.ok
        THEN NotInvoked(PtrRet(to_kernel_errno(dentry_rs.e)), TRUE)
        ELSE Invoked(<<to_c_inode(inode_rs.v), to_c_dentry(dentry_rs.v)>>,
                     <<>>, PtrOfResult(out))

\* a create that instantiates the new entry before it calls the plugin
create_writes_dentry(c_user_ns, c_inode, c_dentry) ==
    IF c_user_ns # NULL /\ c_inode # NULL /\ c_dentry # NULL
    THEN {c_dentry} ELSE {}
\* the host objects the code of create itself writes through its raw
\* arguments: it wraps them, calls the plugin and maps the result
create_writes(c_user_ns, c_inode, c_dentry) == {}

create(c_user_ns, c_inode, c_dentry, out) ==
    LET user_ns_rs == from_c_user_namespace(c_user_ns)
        inode_rs == from_c_inode(c_inode)
        dentry_rs == from_c_dentry(c_dentry)
    IN  IF ~user_ns_rs.ok
        THEN NotInvoked(IntRet(to_kernel_errno(user_ns_rs.e)), FALSE)
        ELSE IF ~inode_rs.ok
        THEN NotInvoked(IntRet(to_kernel_errno(inode_rs.e)), FALSE)
        ELSE IF ~dentry_rs.ok
        THEN NotInvoked(IntRet(to_kernel_errno(dentry_rs.e)), FALSE)
        ELSE Invoked(<<to_c_user_namespace(user_ns_rs.v),
                       to_c_inode(inode_rs.v), to_c_dentry(dentry_rs.v)>>,
                     <<>>, IntOfResult(out))

link(c_old_dentry, c_dir, c_dentry, out) ==
    LET old_dentry_rs == from_c_dentry(c_old_dentry)
        dir_rs == from_c_inode(c_dir)
        dentry_rs == from_c_dentry(c_dentry)
    IN  IF ~old_dentry_rs.ok
        THEN NotInvoked(IntRet(to_kernel_errno(old_dentry_rs.e)), FALSE)
        ELSE IF ~dir_rs.ok
        THEN NotInvoked(IntRet(to_kernel_errno(dir_rs.e)), FALSE)
        ELSE IF ~dentry_rs.ok
        THEN NotInvoked(IntRet(to_kernel_errno(dentry_rs.e)), FALSE)
        ELSE Invoked(<<to_c_dentry(old_dentry_rs.v), to_c_inode(dir_rs.v),
                       to_c_dentry(dentry_rs.v)>>,
                     <<>>, IntOfResult(out))

unlink(c_inode, c_dentry, out) ==
    LET inode_rs == from_c_inode(c_inode)
        dentry_rs == from_c_dentry(c_dentry)
    IN  IF ~inode_rs.ok
        THEN NotInvoked(IntRet(to_kernel_errno(inode_rs.e)), FALSE)
        ELSE IF ~dentry_rs.ok
        THEN NotInvoked(IntRet(to_kernel_errno(dentry_rs.e)), FALSE)
        ELSE Invoked(<<to_c_inode(inode_rs.v), to_c_dentry(dentry_rs.v)>>,
                     <<>>, IntOfResult(out))

\* c_symname is not checked: CStr::from_char_ptr(null) reads through a null
\* pointer, which faults (ub = "fault") or yields some string garbage
symlink(c_user_ns, c_inode, c_dentry, c_symname, out, ub, garbage) ==
    LET user_ns_rs == from_c_user_namespace(c_user_ns)
        inode_rs == from_c_inode(c_inode)
        dentry_rs == from_c_dentry(c_dentry)
    IN  IF ~user_ns_rs.ok
        THEN NotInvoked(IntRet(to_kernel_errno(user_ns_rs.e)), FALSE)
        ELSE IF ~inode_rs.ok
        THEN NotInvoked(IntRet(to_kernel_errno(inode_rs.e)), FALSE)
        ELSE IF ~dentry_rs.ok
        THEN NotInvoked(IntRet(to_kernel_errno(dentry_rs.e)), FALSE)
        ELSE IF c_symname = NULL /\ ub = "fault"
        THEN NotInvoked(Fault, FALSE)
        ELSE LET sym_name == IF c_symname = NULL THEN garbage
                             ELSE from_char_ptr(c_symname)
             IN  Invoked(<<to_c_user_namespace(user_ns_rs.v),
                           to_c_inode(inode_rs.v), to_c_dentry(dentry_rs.v)>>,
                         <<sym_name>>, IntOfResult(out))

mkdir(c_user_ns, c_inode, c_dentry, out) ==
    LET user_ns_rs == from_c_user_namespace(c_user_ns)
        inode_rs == from_c_inode(c_inode)
        dentry_rs == from_c_dentry(c_dentry)
    IN  IF ~user_ns_rs.ok
        THEN NotInvoked(IntRet(to_kernel_errno(user_ns_rs.e)), FALSE)
        ELSE IF ~inode_rs.ok
        THEN NotInvoked(IntRet(to_kernel_errno(inode_rs.e)), FALSE)
        ELSE IF ~dentry_rs.ok
        THEN NotInvoked(IntRet(to_kernel_errno(dentry_rs.e)), FALSE)
        ELSE Invoked(<<to_c_user_namespace(user_ns_rs.v),
                       to_c_inode(inode_rs.v), to_c_dentry(dentry_rs.v)>>,
                     <<>>, IntOfResult(out))

rmdir(c_inode, c_dentry, out) ==
    LET inode_rs == from_c_inode(c_inode)
        dentry_rs == from_c_dentry(c_dentry)
    IN  IF ~inode_rs.ok
        THEN NotInvoked(IntRet(to_kernel_errno(inode_rs.e)), FALSE)
        ELSE IF ~dentry_rs.ok
        THEN NotInvoked(IntRet(to_kernel_errno(dentry_rs.e)), FALSE)
        ELSE Invoked(<<to_c_inode(inode_rs.v), to_c_dentry(dentry_rs.v)>>,
                     <<>>, IntOfResult(out))

mknod(c_user_ns, c_inode, c_dentry, out) ==
    LET user_ns_rs == from_c_user_namespace(c_user_ns)
        inode_rs == from_c_inode(c_inode)
        dentry_rs == from_c_dentry(c_dentry)
    IN  IF ~user_ns_rs.ok
        THEN NotInvoked(IntRet(to_kernel_errno(user_ns_rs.e)), FALSE)
        ELSE IF ~inode_rs.ok
        THEN NotInvoked(IntRet(to_kernel_errno(inode_rs.e)), FALSE)
        ELSE IF ~dentry_rs.ok
        THEN NotInvoked(IntRet(to_kernel_errno(dentry_rs.e)), FALSE)
        ELSE Invoked(<<to_c_user_namespace(user_ns_rs.v),
                       to_c_inode(inode_rs.v), to_c_dentry(dentry_rs.v)>>,
                     <<>>, IntOfResult(out))

rename(c_user_ns, c_old_dir, c_old_dentry, c_new_dir, c_new_dentry, out) ==
    LET user_ns_rs == from_c_user_namespace(c_user_ns)
        old_dir_rs == from_c_inode(c_old_dir)
        old_dentry_rs == from_c_dentry(c_old_dentry)
        new_dir_rs == from_c_inode(c_new_dir)
        new_dentry_rs == from_c_dentry(c_new_dentry)
    IN  IF ~user_ns_rs.ok
        THEN NotInvoked(IntRet(to_kernel_errno(user_ns_rs.e)), FALSE)
        ELSE IF ~old_dir_rs.ok
        THEN NotInvoked(IntRet(to_kernel_errno(old_dir_rs.e)), FALSE)
        ELSE IF ~old_dentry_rs.ok
        THEN NotInvoked(IntRet(to_kernel_errno(old_dentry_rs.e)), FALSE)
        ELSE IF ~new_dir_rs.ok
        THEN NotInvoked(IntRet(to_kernel_errno(new_dir_rs.e)), FALSE)
        ELSE IF ~new_dentry_rs.ok
        THEN NotInvoked(IntRet(to_kernel_errno(new_dentry_rs.e)), FALSE)
        ELSE Invoked(<<to_c_user_namespace(user_ns_rs.v),
                       to_c_inode(old_dir_rs.v), to_c_dentry(old_dentry_rs.v),
                       to_c_inode(new_dir_rs.v), to_c_dentry(new_dentry_rs.v)>>,
                     <<>>, IntOfResult(out))

\* the plugin gets a copy of *c_attr, so of the raw arguments it sees the
\* two handles only
setattr(c_user_ns, c_dentry, c_attr, out) ==
    LET user_ns_rs == from_c_user_namespace(c_user_ns)
        dentry_rs == from_c_dentry(c_dentry)
    IN  IF ~user_ns_rs.ok
        THEN NotInvoked(IntRet(to_kernel_errno(user_ns_rs.e)), FALSE)
        ELSE IF ~dentry_rs.ok
        THEN NotInvoked(IntRet(to_kernel_errno(dentry_rs.e)), FALSE)
        ELSE IF c_attr = NULL
        THEN NotInvoked(IntRet(to_kernel_errno("EINVAL")), FALSE)
        ELSE Invoked(<<to_c_user_namespace(user_ns_rs.v),
                       to_c_dentry(dentry_rs.v)>>,
                     <<>>, IntOfResult(out))

\* the plugin gets copies of *c_path and *c_kstat
getattr(c_user_ns, c_path, c_kstat, out) ==
    LET user_ns_rs == from_c_user_namespace(c_user_ns)
    IN  IF ~user_ns_rs.ok
        THEN NotInvoked(IntRet(to_kernel_errno(user_ns_rs.e)), FALSE)
        ELSE IF c_path = NULL
        THEN NotInvoked(IntRet(to_kernel_errno("EINVAL")), FALSE)
        ELSE IF c_kstat = NULL
        THEN NotInvoked(IntRet(to_kernel_errno("EINVAL")), FALSE)
        ELSE Invoked(<<to_c_user_namespace(user_ns_rs.v)>>,
                     <<>>, IntOfResult(out))

(***************************************************************************)
(* Trampolines of super_block.rs and dentry.rs                             *)
(***************************************************************************)
destroy_inode_callback(c_inode, out) ==
    LET inode_rs == from_c_inode(c_inode)
    IN  IF ~inode_rs.ok
        THEN NotInvoked(VoidRet, TRUE)
        ELSE Invoked(<<to_c_inode(inode_rs.v)>>, <<>>, VoidOfUnit(out))

free_inode_callback(c_inode, out) ==
    LET inode_rs == from_c_inode(c_inode)
    IN  IF ~inode_rs.ok
        THEN NotInvoked(VoidRet, TRUE)
        ELSE Invoked(<<to_c_inode(inode_rs.v)>>, <<>>, VoidOfUnit(out))

drop_inode_callback(c_inode, out) ==
    LET inode_rs == from_c_inode(c_inode)
    IN  IF ~inode_rs.ok
        THEN NotInvoked(IntRet(to_kernel_errno(inode_rs.e)), FALSE)
        ELSE Invoked(<<to_c_inode(inode_rs.v)>>, <<>>, IntOfBool(out))

evict_inode_callback(c_inode, out) ==
    LET inode_rs == from_c_inode(c_inode)
    IN  IF ~inode_rs.ok
        THEN NotInvoked(VoidRet, TRUE)
        ELSE Invoked(<<to_c_inode(inode_rs.v)>>, <<>>, VoidOfUnit(out))

statfs_callback(c_dentry, c_kstatfs, out) ==
    LET dentry_rs == from_c_dentry(c_dentry)
        kstatfs_rs == from_c_kstatfs(c_kstatfs)
    IN  IF ~dentry_rs.ok
        THEN NotInvoked(IntRet(to_kernel_errno(dentry_rs.e)), FALSE)
        ELSE IF ~kstatfs_rs.ok
        THEN NotInvoked(IntRet(to_kernel_errno(kstatfs_rs.e)), FALSE)
        ELSE Invoked(<<to_c_dentry(dentry_rs.v), to_c_kstatfs(kstatfs_rs.v)>>,
                     <<>>, IntOfResult(out))

show_options_callback(c_seq_file, c_dentry, out) ==
    LET seq_file_rs == from_c_seq_file(c_seq_file)
        dentry_rs == from_c_dentry(c_dentry)
    IN  IF ~seq_file_rs.ok
        THEN NotInvoked(IntRet(to_kernel_errno(seq_file_rs.e)), FALSE)
        ELSE IF ~dentry_rs.ok
        THEN NotInvoked(IntRet(to_kernel_errno(dentry_rs.e)), FALSE)
        ELSE Invoked(<<to_c_seq_file(seq_file_rs.v), to_c_dentry(dentry_rs.v)>>,
                     <<>>, IntOfResult(out))

d_delete_callback(c_dentry, out) ==
    LET dentry_rs == from_c_dentry(c_dentry)
    IN  IF ~dentry_rs.ok
        THEN NotInvoked(IntRet(1), TRUE)
        ELSE Invoked(<<to_c_dentry(dentry_rs.v)>>, <<>>, IntOfBool(out))

(***************************************************************************)
(* Trampolines of fs/mod.rs                                                *)
(***************************************************************************)
PluginTypes == {"T1", "T2"}
MountTypes == {"Custom", "BDev", "NoDev", "Single"}
\* an argument a host helper does not take
NoArg == -1
\* what mount_single, mount_bdev and mount_nodev give back: a dentry, null
\* or an error-encoded pointer
HostDentryPtrs == Ptrs \cup {to_kernel_errno(k) : k \in ErrorKinds}

\* a dispatch that takes mount_single for every mount type
HelperCall_single(fn, fs_type, dev_name, data, T) ==
    [fn |-> "mount_single", fs_type |-> fs_type, dev_name |-> dev_name,
     data |-> data, fill_super |-> <<"fill_super_callback", T>>]

HelperCall(fn, fs_type, dev_name, data, T) ==
    [fn |-> fn, fs_type |-> fs_type, dev_name |-> dev_name, data |-> data,
     fill_super |-> <<"fill_super_callback", T>>]

\* the helper's pointer handed back as it is, null included
MountByHelper_raw(call, hostRet) ==
    [calls |-> 0, saw |-> <<>>, strs |-> <<>>, ret |-> PtrRet(hostRet),
     warned |-> FALSE, helpers |-> <<call>>]

\* Dentry::from_c_dentry(unsafe { mount_xxx(..) }), then lines 65-70
MountByHelper(call, hostRet) ==
    LET rt == from_c_dentry(hostRet)
    IN  [calls |-> 0, saw |-> <<>>, strs |-> <<>>,
         ret |-> IF ~rt.ok THEN PtrRet(to_kernel_errno(rt.e))
                 ELSE PtrRet(to_c_dentry(rt.v)),
         warned |-> FALSE, helpers |-> <<call>>]

\* T is the plugin type, MOUNT_TYPE its constant, out what T::mount does and
\* hostRet what the host's mount helper returns
mount_callback(T, MOUNT_TYPE, fs_type, dev_name, data, out, hostRet) ==
    LET fs_type_rs == from_c_fs_type(fs_type)
        r_dev_name == IF dev_name = NULL THEN EmptyStr
                      ELSE from_char_ptr(dev_name)
        r_data == IF data = NULL THEN EmptyStr ELSE from_char_ptr(data)
    IN  IF ~fs_type_rs.ok
        THEN NotInvoked(Fault, FALSE)          \* .unwrap() of an Err panics
        ELSE CASE MOUNT_TYPE = "Custom" ->
                    Invoked(<<to_c_fs_type(fs_type_rs.v)>>,
                            <<r_dev_name, r_data>>, PtrOfResult(out))
               [] MOUNT_TYPE = "Single" ->
                    MountByHelper(
                        HelperCall("mount_single", fs_type, NoArg, data, T),
                        hostRet)
               [] MOUNT_TYPE = "BDev" ->
                    MountByHelper(
                        HelperCall("mount_bdev", fs_type, dev_name, data, T),
                        hostRet)
               [] MOUNT_TYPE = "NoDev" ->
                    MountByHelper(
                        HelperCall("mount_nodev", fs_type, NoArg, data, T),
                        hostRet)

\* fill_super_callback refusing null data like a null superblock
fill_super_callback_dataChecked(sb, data, out) ==
    IF sb = NULL \/ data = NULL
    THEN NotInvoked(IntRet(to_kernel_errno("EINVAL")), FALSE)
    ELSE Invoked(<<sb>>, <<from_char_ptr(data)>>, IntOfResult(out))

fill_super_callback(sb, data, out) ==
    LET r_sb_rs == from_c_super_block(sb)
        r_data == IF data = NULL THEN EmptyStr ELSE from_char_ptr(data)
    IN  IF ~r_sb_rs.ok
        THEN NotInvoked(IntRet(to_kernel_errno(r_sb_rs.e)), FALSE)
        ELSE Invoked(<<to_c_super_block(r_sb_rs.v)>>, <<r_data>>,
                     IntOfResult(out))

\* simple_fill_super reporting every failure of the host helper as EINVAL
simple_fill_super_einval(rt) == IF rt # 0 THEN Err("EINVAL") ELSE Ok(NULL)
\* simple_fill_super: rt is what the host's simple_fill_super returned
simple_fill_super(rt) ==
    IF rt # 0 THEN Err(from_kernel_errno(rt)) ELSE Ok(NULL)
\* simple_statfs: rt is what the host's simple_statfs returned
simple_statfs(rt) ==
    IF rt # 0 THEN Err(from_kernel_errno(rt)) ELSE Ok(NULL)
\* a fill_super or statfs of a plugin that ends in the helper and hands on
\* its result (rust_ramfs.rs: fill_super)
PluginOutcomeOf(r) == IF r.ok THEN PluginOk ELSE PluginErr(r.e)

\* kill_sb_callback calling the plugin whatever the wrap gave
kill_sb_callback_unchecked(sb, out) ==
    Invoked(<<sb>>, <<>>, VoidOfUnit(out))

kill_sb_callback(sb, out) ==
    LET r_sb_rs == from_c_super_block(sb)
    IN  IF r_sb_rs.ok
        THEN Invoked(<<to_c_super_block(r_sb_rs.v)>>, <<>>, VoidOfUnit(out))
        ELSE NotInvoked(VoidRet, FALSE)

(***************************************************************************)
(* treedescr! (fs/mod.rs).  A tree_descr has a name (a char pointer), file *)
(* operations (a pointer to a static table) and a mode; the declared       *)
(* entries are name, ops type and mode.                                    *)
(***************************************************************************)
\* declared entries of one use of the macro
MaxEntries == 2
\* a null char pointer, and the pointer c_str!(s).as_char_ptr()
NullChars == [null |-> TRUE, s |-> ""]
as_char_ptr(s) == [null |-> FALSE, s |-> s]
\* no file operations, and the static table of build_fops::<A, T>()
NoFops == [null |-> TRUE, A |-> "", T |-> ""]
build_fops(A, T) == [null |-> FALSE, A |-> A, T |-> T]
\* tree_descr::default(): the zeroed struct
tree_descr_default == [name |-> NullChars, ops |-> NoFops, mode |-> 0]

\* what one repetition of the macro body pushes for a declared entry
TreeEntry(e) ==
    [name |-> as_char_ptr(e.name), ops |-> build_fops(e.ops, e.ops),
     mode |-> e.mode]
\* the ending mark
TreeEnd == [tree_descr_default EXCEPT !.name = as_char_ptr("")]

\* the macro's first arm with only one leading blank descriptor
treedescr_vec_oneBlank(entries) ==
    IF entries = <<>>
    THEN <<TreeEnd>>
    ELSE <<tree_descr_default>>
            \o [i \in 1 .. Len(entries) |-> TreeEntry(entries[i])]
            \o <<TreeEnd>>

\* the vector the macro has pushed when no push fails: the second arm for
\* no entries, the first arm otherwise
treedescr_vec(entries) ==
    IF entries = <<>>
    THEN <<TreeEnd>>
    ELSE <<tree_descr_default, tree_descr_default>>
            \o [i \in 1 .. Len(entries) |-> TreeEntry(entries[i])]
            \o <<TreeEnd>>

\* treedescr!: every push is v.try_push(..)?, so the expansion leaves the
\* enclosing function with Err(ENOMEM) when the allocator gives out after
\* cap elements
treedescr(entries, cap) ==
    LET v == treedescr_vec(entries)
    IN  IF Len(v) > cap THEN Err("ENOMEM") ELSE Ok(v)

\* the inputs of the macro: names are literals, ops are the types that
\* implement file operations, modes are permission bits
TreeNames == {"file_a", "file_b"}
TreeOps == {"FopsA", "FopsB"}
TreeModes == {256, 260}
TreeDecl == [name : TreeNames, ops : TreeOps, mode : TreeModes]
RECURSIVE SeqsUpTo(_, _)
SeqsUpTo(S, n) ==
    IF n = 0 THEN {<<>>}
    ELSE LET shorter == SeqsUpTo(S, n - 1)
         IN  shorter \cup {Append(q, x) : q \in shorter, x \in S}
\* no use of the macro in progress
\* the statics of a rate-limited call site before its first use, with
\* what has been done to them so far
NoRl ==
    [avail |-> FALSE, ptr |-> NULL, rs |-> "uninit", zeroes |-> 0,
     inits |-> 0, stores |-> 0, rsAtStore |-> "none", winners |-> {},
     initBy |-> {}, calls |-> {}]
\* a context that is not at the call site; n counts its invocations
PrintThreadIdle ==
    [pc |-> "idle", n |-> 0, won |-> FALSE, sawNull |-> FALSE,
     busy |-> FALSE, p |-> NULL, ret |-> NoArg, out |-> "none"]
\* no formatting in progress; otherwise the Writer, the range it was
\* given and what the write_str calls have done so far
NoFmt ==
    [st |-> "none", buf0 |-> NULL, end |-> NULL, buf |-> NULL, pieces |-> 0,
     total |-> 0, copied |-> 0, wrote |-> {}, lastFrom |-> NULL,
     lastLen |-> 0, lastCopied |-> 0, ret |-> NULL]
NoDesc == [st |-> "none", entries |-> <<>>, r |-> Err("none")]

(***************************************************************************)
(* Operation tables.  TO_USE is the set of the ToUse fields that are true; *)
(* a slot is None or Some(callback::<T>).                                  *)
(***************************************************************************)
None == <<>>
Some(f, T) == <<f, T>>

\* super_block.rs: ToUse
SuperToUseFields ==
    {"destroy_inode", "free_inode", "drop_inode", "evict_inode", "statfs",
     "show_options"}
\* bindings::super_operations
SuperSlots ==
    {"alloc_inode", "destroy_inode", "free_inode", "dirty_inode",
     "write_inode", "drop_inode", "evict_inode", "put_super", "sync_fs",
     "freeze_super", "freeze_fs", "thaw_super", "unfreeze_fs", "statfs",
     "remount_fs", "umount_begin", "show_options", "show_devname",
     "show_path", "show_stats", "quota_read", "quota_write", "get_dquots",
     "nr_cached_objects", "free_cached_objects"}

SuperBlockOperationsVtable(T, TO_USE) ==
    [slot \in SuperSlots |->
        CASE slot = "destroy_inode" ->
                IF "destroy_inode" \in TO_USE
                THEN Some("destroy_inode_callback", T) ELSE None
          [] slot = "free_inode" ->
                IF "free_inode" \in TO_USE
                THEN Some("free_inode_callback", T) ELSE None
          [] slot = "drop_inode" ->
                IF "drop_inode" \in TO_USE
                THEN Some("drop_inode_callback", T) ELSE None
          [] slot = "evict_inode" ->
                IF "evict_inode" \in TO_USE
                THEN Some("evict_inode_callback", T) ELSE None
          [] slot = "statfs" ->
                IF "statfs" \in TO_USE
                THEN Some("statfs_callback", T) ELSE None
          [] slot = "show_options" ->
                IF "show_options" \in TO_USE
                THEN Some("show_options_callback", T) ELSE None
          [] OTHER -> None]

\* dentry.rs: ToUse, which has one field per slot of dentry_operations
DentrySlots ==
    {"d_revalidate", "d_weak_revalidate", "d_hash", "d_compare", "d_delete",
     "d_init", "d_release", "d_prune", "d_iput", "d_dname", "d_automount",
     "d_manage", "d_real"}
DentryToUseFields == DentrySlots

DentryOperationsVtable(T, TO_USE) ==
    [slot \in DentrySlots |->
        CASE slot = "d_delete" ->
                IF "d_delete" \in TO_USE
                THEN Some("d_delete_callback", T) ELSE None
          [] OTHER -> None]

\* inode.rs: ToUse, which has one field per slot of inode_operations
InodeSlots ==
    {"lookup", "get_link", "permission", "get_acl", "readlink", "create",
     "link", "unlink", "symlink", "mkdir", "rmdir", "mknod", "rename",
     "setattr", "getattr", "listxattr", "fiemap", "update_time",
     "atomic_open", "tmpfile", "set_acl", "fileattr_set", "fileattr_get"}
InodeToUseFields == InodeSlots

\* every slot of the inode table is None, whatever the plugin declares
InodeOperationsVtable(T, TO_USE) ==
    [slot \in InodeSlots |-> None]

\* the trampoline that belongs to a slot
CallbackOf(kind, slot) ==
    IF kind = "inode" THEN slot
    ELSE IF slot \in {"destroy_inode", "free_inode", "drop_inode",
                      "evict_inode", "statfs", "show_options", "d_delete"}
    THEN slot \o "_callback"
    ELSE "none"

TableKinds == {"super", "dentry", "inode"}
SlotsOf(kind) ==
    CASE kind = "super" -> SuperSlots
      [] kind = "dentry" -> DentrySlots
      [] kind = "inode" -> InodeSlots
\* the methods of the plugin traits; each has a default body, so a plugin
\* overrides any subset of them
TraitMethods(kind) ==
    CASE kind = "super" ->
            {"destroy_inode", "free_inode", "drop_inode", "evict_inode",
             "statfs", "show_options"}
      [] kind = "dentry" -> {"d_delete"}
      [] kind = "inode" ->
            {"lookup", "create", "link", "unlink", "symlink", "mkdir",
             "rmdir", "mknod", "rename", "setattr", "getattr"}
\* the subsets of S with at most n elements
RECURSIVE SubsetsUpTo(_, _)
SubsetsUpTo(S, n) ==
    IF n = 0 THEN {{}}
    ELSE LET smaller == SubsetsUpTo(S, n - 1)
         IN  smaller \cup {x \cup {e} : x \in smaller, e \in S}
\* what a plugin may declare: its ToUse constant and the trait methods it
\* overrides; the compiler accepts every combination of the two
Declarations ==
    {[kind |-> "super", T |-> T, to_use |-> u, overrides |-> o] :
        T \in PluginTypes, u \in SUBSET SuperToUseFields,
        o \in SUBSET TraitMethods("super")}
    \cup {[kind |-> "dentry", T |-> T, to_use |-> u, overrides |-> o] :
        T \in PluginTypes,
        u \in SubsetsUpTo(DentryToUseFields, MaxSelected),
        o \in SUBSET TraitMethods("dentry")}
    \cup {[kind |-> "inode", T |-> T, to_use |-> u, overrides |-> o] :
        T \in PluginTypes,
        u \in SubsetsUpTo(InodeToUseFields, MaxSelected),
        o \in SubsetsUpTo(TraitMethods("inode"), MaxSelected)}

\* SuperBlockOperationsVtable::<T>::build(): a reference to the constant
build(T, TO_USE) == SuperBlockOperationsVtable(T, TO_USE)
\* a set_super_block_operations that hands out an emptied table when the
\* super block already has one
set_super_block_operations_rebuilt(sb, T, TO_USE) ==
    [kind |-> "super", T |-> T,
     ops |-> IF sb.kind = "none" THEN build(T, TO_USE)
             ELSE [slot \in SuperSlots |-> None]]
\* SuperBlock::set_super_block_operations::<T>: (*c_sb).s_op = build(); sb is
\* the s_op of the super block before the call
set_super_block_operations(sb, T, TO_USE) ==
    [kind |-> "super", T |-> T, ops |-> build(T, TO_USE)]

(***************************************************************************)
(* The host's registry of file-system types (fs/filesystems.c of the host, *)
(* not part of the sources at hand): names are unique, an entry is removed *)
(* by the pointer that registered it.                                      *)
(***************************************************************************)
register_filesystem(reg, heap, p) ==
    IF \E q \in reg : heap[q].name = heap[p].name
    THEN [err |-> to_kernel_errno("EBUSY"), reg |-> reg]
    ELSE [err |-> 0, reg |-> reg \cup {p}]

unregister_filesystem(reg, p) ==
    IF p \in reg
    THEN [err |-> 0, reg |-> reg \ {p}]
    ELSE [err |-> to_kernel_errno("EINVAL"), reg |-> reg]

(***************************************************************************)
(* FileSystem::register_self and unregister_self (fs/mod.rs).              *)
(* heap maps the address of every file_system_type allocated so far to its *)
(* fields; reg is the registry.  allocOk tells whether Box::try_new has    *)
(* memory.  The result says what the caller gets and what became of the    *)
(* heap and of the registry.                                               *)
(***************************************************************************)
Names == {"rust_ramfs", "sample_fs"}
Owners == {"m1", "m2"}

\* register_self that does not look at what register_filesystem returned
register_self_ignoreErr(T, name, owner, allocOk, heap, reg) ==
    IF ~allocOk
    THEN [res |-> Err("ENOMEM"), hostErr |-> 0, heap |-> heap, reg |-> reg]
    ELSE LET p == Len(heap) + 1
             c_fs_type == [mount |-> Some("mount_callback", T),
                           kill_sb |-> Some("kill_sb_callback", T),
                           owner |-> owner, name |-> name, live |-> TRUE]
             heap1 == Append(heap, c_fs_type)
             host == register_filesystem(reg, heap1, p)
         IN  [res |-> Ok(p), hostErr |-> host.err, heap |-> heap1,
              reg |-> host.reg]

\* register_self that leaves the owner of the record unset
register_self_noOwner(T, name, owner, allocOk, heap, reg) ==
    IF ~allocOk
    THEN [res |-> Err("ENOMEM"), hostErr |-> 0, heap |-> heap, reg |-> reg]
    ELSE LET p == Len(heap) + 1
             c_fs_type == [mount |-> Some("mount_callback", T),
                           kill_sb |-> Some("kill_sb_callback", T),
                           owner |-> "", name |-> name, live |-> TRUE]
             heap1 == Append(heap, c_fs_type)
             host == register_filesystem(reg, heap1, p)
         IN  IF host.err # 0
             THEN [res |-> Err(from_kernel_errno(host.err)),
                   hostErr |-> host.err,
                   heap |-> [heap1 EXCEPT ![p].live = FALSE],
                   reg |-> host.reg]
             ELSE [res |-> Ok(p), hostErr |-> 0, heap |-> heap1,
                   reg |-> host.reg]

register_self(T, name, owner, allocOk, heap, reg) ==
    IF ~allocOk
    THEN [res |-> Err("ENOMEM"), hostErr |-> 0, heap |-> heap, reg |-> reg]
    ELSE LET p == Len(heap) + 1
             c_fs_type == [mount |-> Some("mount_callback", T),
                           kill_sb |-> Some("kill_sb_callback", T),
                           owner |-> owner, name |-> name, live |-> TRUE]
             heap1 == Append(heap, c_fs_type)
             host == register_filesystem(reg, heap1, p)
         IN  IF host.err # 0
             THEN \* the Box is dropped on the way out
                  [res |-> Err(from_kernel_errno(host.err)),
                   hostErr |-> host.err,
                   heap |-> [heap1 EXCEPT ![p].live = FALSE],
                   reg |-> host.reg]
             ELSE [res |-> Ok(p), hostErr |-> 0, heap |-> heap1,
                   reg |-> host.reg]

\* register_self in the steps other contexts can interleave with.
\* Box::try_new and the stores into the new record:
register_self_alloc(T, name, owner, allocOk, heap) ==
    IF ~allocOk
    THEN [res |-> Err("ENOMEM"), heap |-> heap]
    ELSE [res |-> Ok(Len(heap) + 1),
          heap |-> Append(heap,
                          [mount |-> Some("mount_callback", T),
                           kill_sb |-> Some("kill_sb_callback", T),
                           owner |-> owner, name |-> name, live |-> TRUE])]
\* the end of register_self, taking whatever the host said for success
register_self_result_ignoreErr(err, p, heap) ==
    [res |-> Ok(p), heap |-> heap]
\* the end of register_self: err is what register_filesystem returned
register_self_result(err, p, heap) ==
    IF err # 0
    THEN [res |-> Err(from_kernel_errno(err)),
          heap |-> [heap EXCEPT ![p].live = FALSE]]
    ELSE [res |-> Ok(p), heap |-> heap]

\* unregister_self that does not look at what unregister_filesystem returned
unregister_self_ignoreErr(c_fs_type, reg) ==
    LET host == unregister_filesystem(reg, c_fs_type)
    IN  [res |-> Ok(NULL), hostErr |-> host.err, reg |-> host.reg]

unregister_self(c_fs_type, reg) ==
    LET host == unregister_filesystem(reg, c_fs_type)
    IN  IF host.err # 0
        THEN [res |-> Err(from_kernel_errno(host.err)), hostErr |-> host.err,
              reg |-> host.reg]
        ELSE [res |-> Ok(NULL), hostErr |-> 0, reg |-> host.reg]

(***************************************************************************)
(* State                                                                   *)
(*   call          the trampoline call the host made last and its inputs   *)
(*   res           what that call amounted to                              *)
(*   registry      the host's registry: addresses of file_system_types     *)
(*   heap          the file_system_types allocated so far, by address      *)
(*   handles       the FSHandles the caller holds                          *)
(*   unregistered  the handles unregister_self has succeeded on            *)
(*   regOp         the last register_self / unregister_self and its result *)
(*   decl          the plugin's declaration: table kind, type and TO_USE   *)
(*   table         the operation table built from it                       *)
(*   wrap          the handle wrapper under construction                   *)
(*   hostMem       the content of the host objects, by address             *)
(*   pwrites       the host objects the plugin wrote in the last call      *)
(*   errSt         an error on its way across the boundary                 *)
(*   thr           per context: the trampoline invocation in progress      *)
(*   rthr          per context: the register_self in progress              *)
(*   pthr          per context: the use of the published table in progress *)
(*   desc          the use of treedescr! in progress                       *)
(*   rl, prt       the statics of a rate-limited print call site, and per  *)
(*                 context the invocation in progress                      *)
(*   fmt           the Writer of rust_fmt_argument                         *)
(***************************************************************************)
VARIABLES call, res, registry, heap, handles, unregistered, regOp, decl, table,
          wrap, hostMem, pwrites, errSt, thr, rthr, pthr, desc, rl, prt,
          fmt

vars ==
    <<call, res, registry, heap, handles, unregistered, regOp, decl, table,
      wrap, hostMem, pwrites, errSt, thr, rthr, pthr, desc, rl, prt, fmt>>
trampVars == <<call, res>>
regVars == <<registry, heap, handles, unregistered, regOp>>
tableVars == <<decl, table>>
wrapVars == <<wrap>>
memVars == <<hostMem, pwrites>>
errVars == <<errSt>>
thrVars == <<thr, rthr, pthr>>
treeVars == <<desc>>
printVars == <<rl, prt>>
fmtVars == <<fmt>>
libVars == <<treeVars, printVars, fmtVars>>
auxVars == <<wrapVars, memVars, errVars, thrVars, libVars>>
coreVars ==
    <<trampVars, regVars, tableVars, wrapVars, memVars, errVars, thrVars>>

NoCall ==
    [tramp |-> "none", T |-> "T1", hargs |-> <<>>, sargs |-> <<>>,
     mt |-> "Custom", hostRet |-> NULL, out |-> PluginOk]
MkCall(tramp, T, hargs, sargs, out) ==
    [tramp |-> tramp, T |-> T, hargs |-> hargs, sargs |-> sargs,
     mt |-> "Custom", hostRet |-> NULL, out |-> out]
NoRes == NotInvoked([kind |-> "none", val |-> 0], FALSE)
NoRegOp ==
    [op |-> "none", T |-> "T1", name |-> "", owner |-> "", h |-> NULL,
     ok |-> TRUE, e |-> "none", hostErr |-> 0]
NoDecl == [kind |-> "none", T |-> "T1", to_use |-> {}, overrides |-> {}]
NoTable == [kind |-> "none", T |-> "T1", ops |-> <<>>]

TrampIdle == call = NoCall /\ res = NoRes
RegIdle ==
    /\ registry = {}
    /\ heap = <<>>
    /\ handles = {}
    /\ unregistered = {}
    /\ regOp = NoRegOp
TableIdle == decl = NoDecl /\ table = NoTable

\* no wrapper under construction
NoWrap ==
    [kind |-> "none", how |-> "none", raw |-> NULL, r |-> Err("none"),
     unwrapped |-> FALSE, out |-> NULL]
\* the host objects behind the raw pointers: one word of content each
MemValues == {0, 1}
MemIdle == [p \in 1 .. MaxPtr |-> 0]
WrapIdle == wrap = NoWrap
HostMemIdle == hostMem = MemIdle /\ pwrites = {}

\* execution contexts of the host that may run glue code at the same time
Threads == 1 .. NThreads
NoErrSt ==
    [stage |-> "none", e |-> "none", code |-> 0, back |-> "none", ret |-> 0]
ErrIdle == errSt = NoErrSt
ThreadIdle ==
    [pc |-> "idle", c |-> NoCall, ub |-> "proceed", garbage |-> 0,
     cause |-> "none"]
RegThreadIdle ==
    [pc |-> "idle", T |-> "T1", name |-> "", owner |-> "", p |-> NULL,
     err |-> 0, r |-> Err("none")]
PubThreadIdle == [pc |-> "idle", slot |-> "none"]
ThreadsIdle ==
    /\ thr = [t \in Threads |-> ThreadIdle]
    /\ rthr = [t \in Threads |-> RegThreadIdle]
    /\ pthr = [t \in Threads |-> PubThreadIdle]
TreeIdle == desc = NoDesc
PrintIdle == rl = NoRl /\ prt = [t \in Threads |-> PrintThreadIdle]
FmtIdle == fmt = NoFmt
LibIdle == TreeIdle /\ PrintIdle /\ FmtIdle
AuxIdle == WrapIdle /\ HostMemIdle /\ ErrIdle /\ ThreadsIdle /\ LibIdle

Init == TrampIdle /\ RegIdle /\ TableIdle /\ AuxIdle
InitTable ==
    /\ TrampIdle
    /\ RegIdle
    /\ decl \in Declarations
    /\ table = NoTable
    /\ AuxIdle

(***************************************************************************)
(* The host calls a trampoline                                             *)
(***************************************************************************)
Call_mount ==
    /\ call = NoCall
    /\ \E T \in PluginTypes, mt \in MountTypes, fs_type \in Ptrs,
       dev_name \in Ptrs, data \in Ptrs, out \in PluginDentryResults,
       hostRet \in HostDentryPtrs :
        /\ call' = [tramp |-> "mount_callback", T |-> T,
                    hargs |-> <<fs_type>>, sargs |-> <<dev_name, data>>,
                    mt |-> mt, hostRet |-> hostRet, out |-> out]
        /\ res' = mount_callback(T, mt, fs_type, dev_name, data, out, hostRet)
        /\ UNCHANGED <<regVars, tableVars, auxVars>>

Call_fill_super ==
    /\ call = NoCall
    /\ \E T \in PluginTypes, sb \in Ptrs, data \in Ptrs, out \in PluginResults :
        /\ call' = MkCall("fill_super_callback", T, <<sb>>, <<data>>, out)
        /\ res' = fill_super_callback(sb, data, out)
        /\ UNCHANGED <<regVars, tableVars, auxVars>>

Call_kill_sb ==
    /\ call = NoCall
    /\ \E T \in PluginTypes, sb \in Ptrs, out \in PluginUnits :
        /\ call' = MkCall("kill_sb_callback", T, <<sb>>, <<>>, out)
        /\ res' = kill_sb_callback(sb, out)
        /\ UNCHANGED <<regVars, tableVars, auxVars>>

Call_lookup ==
    /\ call = NoCall
    /\ \E T \in PluginTypes, c_inode \in Ptrs, c_dentry \in Ptrs,
       out \in PluginDentryResults :
        /\ call' = MkCall("lookup", T, <<c_inode, c_dentry>>, <<>>, out)
        /\ res' = lookup(c_inode, c_dentry, out)
        /\ UNCHANGED <<regVars, tableVars, auxVars>>

Call_create ==
    /\ call = NoCall
    /\ \E T \in PluginTypes, c_user_ns \in Ptrs, c_inode \in Ptrs,
       c_dentry \in Ptrs, out \in PluginResults :
        /\ call' = MkCall("create", T, <<c_user_ns, c_inode, c_dentry>>,
                          <<>>, out)
        /\ res' = create(c_user_ns, c_inode, c_dentry, out)
        /\ UNCHANGED <<regVars, tableVars, auxVars>>

Call_link ==
    /\ call = NoCall
    /\ \E T \in PluginTypes, c_old_dentry \in Ptrs, c_dir \in Ptrs,
       c_dentry \in Ptrs, out \in PluginResults :
        /\ call' = MkCall("link", T, <<c_old_dentry, c_dir, c_dentry>>,
                          <<>>, out)
        /\ res' = link(c_old_dentry, c_dir, c_dentry, out)
        /\ UNCHANGED <<regVars, tableVars, auxVars>>

Call_unlink ==
    /\ call = NoCall
    /\ \E T \in PluginTypes, c_inode \in Ptrs, c_dentry \in Ptrs,
       out \in PluginResults :
        /\ call' = MkCall("unlink", T, <<c_inode, c_dentry>>, <<>>, out)
        /\ res' = unlink(c_inode, c_dentry, out)
        /\ UNCHANGED <<regVars, tableVars, auxVars>>

Call_symlink ==
    /\ call = NoCall
    /\ \E T \in PluginTypes, c_user_ns \in Ptrs, c_inode \in Ptrs,
       c_dentry \in Ptrs, c_symname \in Ptrs, out \in PluginResults,
       ub \in {"fault", "proceed"}, garbage \in GarbageStrs :
        /\ call' = MkCall("symlink", T, <<c_user_ns, c_inode, c_dentry>>,
                          <<c_symname>>, out)
        /\ res' = symlink(c_user_ns, c_inode, c_dentry, c_symname, out, ub,
                          garbage)
        /\ UNCHANGED <<regVars, tableVars, auxVars>>

Call_mkdir ==
    /\ call = NoCall
    /\ \E T \in PluginTypes, c_user_ns \in Ptrs, c_inode \in Ptrs,
       c_dentry \in Ptrs, out \in PluginResults :
        /\ call' = MkCall("mkdir", T, <<c_user_ns, c_inode, c_dentry>>,
                          <<>>, out)
        /\ res' = mkdir(c_user_ns, c_inode, c_dentry, out)
        /\ UNCHANGED <<regVars, tableVars, auxVars>>

Call_rmdir ==
    /\ call = NoCall
    /\ \E T \in PluginTypes, c_inode \in Ptrs, c_dentry \in Ptrs,
       out \in PluginResults :
        /\ call' = MkCall("rmdir", T, <<c_inode, c_dentry>>, <<>>, out)
        /\ res' = rmdir(c_inode, c_dentry, out)
        /\ UNCHANGED <<regVars, tableVars, auxVars>>

Call_mknod ==
    /\ call = NoCall
    /\ \E T \in PluginTypes, c_user_ns \in Ptrs, c_inode \in Ptrs,
       c_dentry \in Ptrs, out \in PluginResults :
        /\ call' = MkCall("mknod", T, <<c_user_ns, c_inode, c_dentry>>,
                          <<>>, out)
        /\ res' = mknod(c_user_ns, c_inode, c_dentry, out)
        /\ UNCHANGED <<regVars, tableVars, auxVars>>

Call_rename ==
    /\ call = NoCall
    /\ \E T \in PluginTypes, c_user_ns \in Ptrs, c_old_dir \in Ptrs,
       c_old_dentry \in Ptrs, c_new_dir \in Ptrs, c_new_dentry \in Ptrs,
       out \in PluginResults :
        /\ call' = MkCall("rename", T,
                          <<c_user_ns, c_old_dir, c_old_dentry, c_new_dir,
                            c_new_dentry>>, <<>>, out)
        /\ res' = rename(c_user_ns, c_old_dir, c_old_dentry, c_new_dir,
                         c_new_dentry, out)
        /\ UNCHANGED <<regVars, tableVars, auxVars>>

Call_setattr ==
    /\ call = NoCall
    /\ \E T \in PluginTypes, c_user_ns \in Ptrs, c_dentry \in Ptrs,
       c_attr \in Ptrs, out \in PluginResults :
        /\ call' = MkCall("setattr", T, <<c_user_ns, c_dentry, c_attr>>,
                          <<>>, out)
        /\ res' = setattr(c_user_ns, c_dentry, c_attr, out)
        /\ UNCHANGED <<regVars, tableVars, auxVars>>

Call_getattr ==
    /\ call = NoCall
    /\ \E T \in PluginTypes, c_user_ns \in Ptrs, c_path \in Ptrs,
       c_kstat \in Ptrs, out \in PluginResults :
        /\ call' = MkCall("getattr", T, <<c_user_ns, c_path, c_kstat>>,
                          <<>>, out)
        /\ res' = getattr(c_user_ns, c_path, c_kstat, out)
        /\ UNCHANGED <<regVars, tableVars, auxVars>>

Call_destroy_inode ==
    /\ call = NoCall
    /\ \E T \in PluginTypes, c_inode \in Ptrs, out \in PluginUnits :
        /\ call' = MkCall("destroy_inode_callback", T, <<c_inode>>, <<>>, out)
        /\ res' = destroy_inode_callback(c_inode, out)
        /\ UNCHANGED <<regVars, tableVars, auxVars>>

Call_free_inode ==
    /\ call = NoCall
    /\ \E T \in PluginTypes, c_inode \in Ptrs, out \in PluginUnits :
        /\ call' = MkCall("free_inode_callback", T, <<c_inode>>, <<>>, out)
        /\ res' = free_inode_callback(c_inode, out)
        /\ UNCHANGED <<regVars, tableVars, auxVars>>

Call_drop_inode ==
    /\ call = NoCall
    /\ \E T \in PluginTypes, c_inode \in Ptrs, out \in PluginBools :
        /\ call' = MkCall("drop_inode_callback", T, <<c_inode>>, <<>>, out)
        /\ res' = drop_inode_callback(c_inode, out)
        /\ UNCHANGED <<regVars, tableVars, auxVars>>

Call_evict_inode ==
    /\ call = NoCall
    /\ \E T \in PluginTypes, c_inode \in Ptrs, out \in PluginUnits :
        /\ call' = MkCall("evict_inode_callback", T, <<c_inode>>, <<>>, out)
        /\ res' = evict_inode_callback(c_inode, out)
        /\ UNCHANGED <<regVars, tableVars, auxVars>>

Call_statfs ==
    /\ call = NoCall
    /\ \E T \in PluginTypes, c_dentry \in Ptrs, c_kstatfs \in Ptrs,
       out \in PluginResults :
        /\ call' = MkCall("statfs_callback", T, <<c_dentry, c_kstatfs>>,
                          <<>>, out)
        /\ res' = statfs_callback(c_dentry, c_kstatfs, out)
        /\ UNCHANGED <<regVars, tableVars, auxVars>>

Call_show_options ==
    /\ call = NoCall
    /\ \E T \in PluginTypes, c_seq_file \in Ptrs, c_dentry \in Ptrs,
       out \in PluginResults :
        /\ call' = MkCall("show_options_callback", T,
                          <<c_seq_file, c_dentry>>, <<>>, out)
        /\ res' = show_options_callback(c_seq_file, c_dentry, out)
        /\ UNCHANGED <<regVars, tableVars, auxVars>>

Call_d_delete ==
    /\ call = NoCall
    /\ \E T \in PluginTypes, c_dentry \in Ptrs, out \in PluginBools :
        /\ call' = MkCall("d_delete_callback", T, <<c_dentry>>, <<>>, out)
        /\ res' = d_delete_callback(c_dentry, out)
        /\ UNCHANGED <<regVars, tableVars, auxVars>>

\* the host takes the result of the call; the trampoline keeps nothing
HostReturn ==
    /\ call # NoCall
    /\ call' = NoCall
    /\ res' = NoRes
    /\ UNCHANGED <<regVars, tableVars, auxVars>>

Next ==
    \/ HostReturn
    \/ Call_mount
    \/ Call_fill_super
    \/ Call_kill_sb
    \/ Call_lookup
    \/ Call_create
    \/ Call_link
    \/ Call_unlink
    \/ Call_symlink
    \/ Call_mkdir
    \/ Call_rmdir
    \/ Call_mknod
    \/ Call_rename
    \/ Call_setattr
    \/ Call_getattr
    \/ Call_destroy_inode
    \/ Call_free_inode
    \/ Call_drop_inode
    \/ Call_evict_inode
    \/ Call_statfs
    \/ Call_show_options
    \/ Call_d_delete

Spec == Init /\ [][Next]_vars

(***************************************************************************)
(* Registration                                                            *)
(***************************************************************************)
RegisterSelfAs(T, name, owner, allocOk) ==
    /\ Len(heap) < MaxRecs
    /\ LET r == register_self(T, name, owner, allocOk, heap, registry)
       IN  /\ heap' = r.heap
           /\ registry' = r.reg
           /\ handles' = IF r.res.ok THEN handles \cup {r.res.v}
                         ELSE handles
           /\ regOp' = [op |-> "register", T |-> T, name |-> name,
                        owner |-> owner, h |-> r.res.v, ok |-> r.res.ok,
                        e |-> r.res.e, hostErr |-> r.hostErr]
    /\ UNCHANGED unregistered

RegisterSelf ==
    /\ \E T \in PluginTypes, name \in Names, owner \in Owners,
          allocOk \in BOOLEAN : RegisterSelfAs(T, name, owner, allocOk)
    /\ UNCHANGED <<trampVars, tableVars, auxVars>>

UnregisterSelfOf(h) ==
    /\ LET r == unregister_self(h, registry)
       IN  /\ registry' = r.reg
           /\ unregistered' = IF r.res.ok THEN unregistered \cup {h}
                              ELSE unregistered
           /\ regOp' = [op |-> "unregister", T |-> "T1",
                        name |-> heap[h].name, owner |-> heap[h].owner,
                        h |-> h, ok |-> r.res.ok, e |-> r.res.e,
                        hostErr |-> r.hostErr]
    /\ UNCHANGED <<heap, handles>>

UnregisterSelf ==
    /\ \E h \in handles : UnregisterSelfOf(h)
    /\ UNCHANGED <<trampVars, tableVars, auxVars>>

NextReg == RegisterSelf \/ UnregisterSelf

SpecReg == Init /\ [][NextReg]_vars

(***************************************************************************)
(* The FSHandle in the hands of the plugin.  FSHandle is Box of the        *)
(* file_system_type: whoever holds it may drop it, and dropping it frees   *)
(* the record; nothing in the glue unregisters at that point.              *)
(***************************************************************************)
\* the holder lets the handle h go out of scope
DropHandle ==
    /\ \E h \in handles :
        /\ heap[h].live
        /\ heap' = [heap EXCEPT ![h].live = FALSE]
        /\ handles' = handles \ {h}
        /\ regOp' = [NoRegOp EXCEPT !.op = "drop", !.h = h,
                                    !.name = heap[h].name,
                                    !.owner = heap[h].owner]
    /\ UNCHANGED <<registry, unregistered, trampVars, tableVars, auxVars>>

\* a module registers under its own identity
LifeRegister ==
    /\ \E T \in PluginTypes, name \in Names, allocOk \in BOOLEAN :
        RegisterSelfAs(T, name, "m1", allocOk)
    /\ UNCHANGED <<trampVars, tableVars, auxVars>>

NextLife == LifeRegister \/ UnregisterSelf \/ DropHandle

SpecLife == Init /\ [][NextLife]_vars

(***************************************************************************)
(* Building the tables                                                     *)
(***************************************************************************)
\* SuperBlock::set_super_block_operations::<T>: s_op = build()
SetSuperBlockOperations ==
    /\ decl.kind = "super"
    /\ table' = set_super_block_operations(table, decl.T, decl.to_use)
    /\ UNCHANGED <<decl, trampVars, regVars, auxVars>>

BuildDentryOperations ==
    /\ decl.kind = "dentry"
    /\ table' = [kind |-> "dentry", T |-> decl.T,
                 ops |-> DentryOperationsVtable(decl.T, decl.to_use)]
    /\ UNCHANGED <<decl, trampVars, regVars, auxVars>>

BuildInodeOperations ==
    /\ decl.kind = "inode"
    /\ table' = [kind |-> "inode", T |-> decl.T,
                 ops |-> InodeOperationsVtable(decl.T, decl.to_use)]
    /\ UNCHANGED <<decl, trampVars, regVars, auxVars>>

NextTable ==
    \/ SetSuperBlockOperations
    \/ BuildDentryOperations
    \/ BuildInodeOperations

SpecTable == InitTable /\ [][NextTable]_vars

(***************************************************************************)
(* A plugin that overrides no trait method: every trampoline reaches the   *)
(* default body of its method.                                             *)
(***************************************************************************)
AllTramps ==
    {"mount_callback", "fill_super_callback", "kill_sb_callback", "lookup",
     "create", "link", "unlink", "symlink", "mkdir", "rmdir", "mknod",
     "rename", "setattr", "getattr", "destroy_inode_callback",
     "free_inode_callback", "drop_inode_callback", "evict_inode_callback",
     "statfs_callback", "show_options_callback", "d_delete_callback"}
\* number of pointer arguments that are wrapped or copied, and of char
\* pointer arguments
HandleArity(tramp) ==
    CASE tramp \in {"mount_callback", "fill_super_callback",
                    "kill_sb_callback", "destroy_inode_callback",
                    "free_inode_callback", "drop_inode_callback",
                    "evict_inode_callback", "d_delete_callback"} -> 1
      [] tramp \in {"lookup", "unlink", "rmdir", "statfs_callback",
                    "show_options_callback"} -> 2
      [] tramp \in {"create", "link", "symlink", "mkdir", "mknod", "setattr",
                    "getattr"} -> 3
      [] tramp = "rename" -> 5
StrArity(tramp) ==
    CASE tramp = "mount_callback" -> 2
      [] tramp \in {"fill_super_callback", "symlink"} -> 1
      [] OTHER -> 0

\* the trampoline named in the call record c, applied to the arguments and
\* the plugin outcome of c
Trampoline(c, ub, garbage) ==
    LET h == c.hargs
        s == c.sargs
    IN  CASE c.tramp = "mount_callback" ->
                mount_callback(c.T, c.mt, h[1], s[1], s[2], c.out, c.hostRet)
          [] c.tramp = "fill_super_callback" ->
                fill_super_callback(h[1], s[1], c.out)
          [] c.tramp = "kill_sb_callback" -> kill_sb_callback(h[1], c.out)
          [] c.tramp = "lookup" -> lookup(h[1], h[2], c.out)
          [] c.tramp = "create" -> create(h[1], h[2], h[3], c.out)
          [] c.tramp = "link" -> link(h[1], h[2], h[3], c.out)
          [] c.tramp = "unlink" -> unlink(h[1], h[2], c.out)
          [] c.tramp = "symlink" ->
                symlink(h[1], h[2], h[3], s[1], c.out, ub, garbage)
          [] c.tramp = "mkdir" -> mkdir(h[1], h[2], h[3], c.out)
          [] c.tramp = "rmdir" -> rmdir(h[1], h[2], c.out)
          [] c.tramp = "mknod" -> mknod(h[1], h[2], h[3], c.out)
          [] c.tramp = "rename" ->
                rename(h[1], h[2], h[3], h[4], h[5], c.out)
          [] c.tramp = "setattr" -> setattr(h[1], h[2], h[3], c.out)
          [] c.tramp = "getattr" -> getattr(h[1], h[2], h[3], c.out)
          [] c.tramp = "destroy_inode_callback" ->
                destroy_inode_callback(h[1], c.out)
          [] c.tramp = "free_inode_callback" ->
                free_inode_callback(h[1], c.out)
          [] c.tramp = "drop_inode_callback" ->
                drop_inode_callback(h[1], c.out)
          [] c.tramp = "evict_inode_callback" ->
                evict_inode_callback(h[1], c.out)
          [] c.tramp = "statfs_callback" -> statfs_callback(h[1], h[2], c.out)
          [] c.tramp = "show_options_callback" ->
                show_options_callback(h[1], h[2], c.out)
          [] c.tramp = "d_delete_callback" -> d_delete_callback(h[1], c.out)

\* the default body of the trait method a trampoline calls
TraitDefault(tramp) ==
    CASE tramp \in {"destroy_inode_callback", "free_inode_callback",
                    "evict_inode_callback", "kill_sb_callback"} ->
                [tag |-> "Unit", e |-> "none", p |-> NULL]
      [] tramp = "drop_inode_callback" ->
                [tag |-> "True", e |-> "none", p |-> NULL]
      [] tramp = "d_delete_callback" ->
                [tag |-> "False", e |-> "none", p |-> NULL]
      [] OTHER -> PluginErr("EINVAL")

\* the host calls a trampoline of a plugin type that overrides nothing
CallDefault ==
    /\ call = NoCall
    /\ \E tramp \in AllTramps, T \in PluginTypes, mt \in MountTypes,
          hostRet \in HostDentryPtrs, ub \in {"fault", "proceed"},
          garbage \in GarbageStrs :
        \E hargs \in [1 .. HandleArity(tramp) -> Ptrs],
           sargs \in [1 .. StrArity(tramp) -> Ptrs] :
            LET c == [tramp |-> tramp, T |-> T, hargs |-> hargs,
                      sargs |-> sargs,
                      mt |-> IF tramp = "mount_callback" THEN mt
                             ELSE "Custom",
                      hostRet |-> IF tramp = "mount_callback" THEN hostRet
                                  ELSE NULL,
                      out |-> TraitDefault(tramp)]
            IN  /\ call' = c
                /\ res' = Trampoline(c, ub, garbage)
    /\ UNCHANGED <<regVars, tableVars, auxVars>>

NextDefault == CallDefault \/ HostReturn

SpecDefault == Init /\ [][NextDefault]_vars

(***************************************************************************)
(* A published table in use: execution contexts build the table again and  *)
(* call through its slots while the plugin type is registered and          *)
(* unregistered.                                                           *)
(***************************************************************************)
\* a plugin that overrides the methods it declares
PubDeclarations ==
    {d \in Declarations :
        d.overrides = d.to_use \cap TraitMethods(d.kind)}
InitPub ==
    /\ TrampIdle
    /\ RegIdle
    /\ decl \in PubDeclarations
    /\ table = NoTable
    /\ AuxIdle

\* context t has the table of the declared plugin type built
PubBuild(t) ==
    /\ pthr[t].pc = "idle"
    /\ table' =
          CASE decl.kind = "super" ->
                  set_super_block_operations(table, decl.T, decl.to_use)
            [] decl.kind = "dentry" ->
                  [kind |-> "dentry", T |-> decl.T,
                   ops |-> DentryOperationsVtable(decl.T, decl.to_use)]
            [] decl.kind = "inode" ->
                  [kind |-> "inode", T |-> decl.T,
                   ops |-> InodeOperationsVtable(decl.T, decl.to_use)]
    /\ pthr' = [pthr EXCEPT ![t] =
                  [pc |-> IF table.kind = "none" THEN "built" ELSE "rebuilt",
                   slot |-> "none"]]
    /\ UNCHANGED <<decl, trampVars, regVars, wrapVars, memVars, errVars, libVars,
                   thr, rthr>>

\* context t calls the trampoline in a slot of the published table; the
\* trampoline hands over to the plugin
PubInvoke(t) ==
    /\ pthr[t].pc = "idle"
    /\ table.kind # "none"
    /\ \E slot \in DOMAIN table.ops :
        /\ table.ops[slot] # None
        /\ pthr' = [pthr EXCEPT ![t] = [pc |-> "inPlugin", slot |-> slot]]
    /\ UNCHANGED <<tableVars, trampVars, regVars, wrapVars, memVars, errVars, libVars,
                   thr, rthr>>

\* the build or the call of context t returns
PubReturn(t) ==
    /\ pthr[t].pc # "idle"
    /\ pthr' = [pthr EXCEPT ![t] = PubThreadIdle]
    /\ UNCHANGED <<tableVars, trampVars, regVars, wrapVars, memVars, errVars, libVars,
                   thr, rthr>>

\* the module of the declared plugin type is loaded and registers it
\* (rust_ramfs.rs: init); FS_HANDLE keeps the one handle
PubRegister ==
    /\ handles \ unregistered = {}
    /\ \E allocOk \in BOOLEAN :
          RegisterSelfAs(decl.T, "rust_ramfs", "m1", allocOk)
    /\ UNCHANGED <<trampVars, tableVars, auxVars>>

\* the module is unloaded and unregisters the handle it keeps
\* (rust_ramfs.rs: drop)
PubUnregister ==
    /\ \E h \in handles \ unregistered : UnregisterSelfOf(h)
    /\ UNCHANGED <<trampVars, tableVars, auxVars>>

NextPub ==
    \/ \E t \in Threads : PubBuild(t) \/ PubInvoke(t) \/ PubReturn(t)
    \/ PubRegister
    \/ PubUnregister

SpecPub == InitPub /\ [][NextPub]_vars

(***************************************************************************)
(* Constructing and unwrapping a handle wrapper                            *)
(***************************************************************************)
\* X::default()
WrapDefault ==
    /\ wrap = NoWrap
    /\ \E kind \in WrapperKinds :
        wrap' = [kind |-> kind, how |-> "default", raw |-> NULL,
                 r |-> Ok(default_of(kind)), unwrapped |-> FALSE,
                 out |-> NULL]
    /\ UNCHANGED <<trampVars, regVars, tableVars, memVars, errVars, libVars, thrVars>>

\* X::from_c_x(p)
WrapFromC ==
    /\ wrap = NoWrap
    /\ \E kind \in WrapperKinds, p \in Ptrs :
        wrap' = [kind |-> kind, how |-> "from_c", raw |-> p,
                 r |-> from_c_of(kind, p), unwrapped |-> FALSE, out |-> NULL]
    /\ UNCHANGED <<trampVars, regVars, tableVars, memVars, errVars, libVars, thrVars>>

\* x.to_c_x() on the wrapper that was constructed
Unwrap ==
    /\ wrap.how # "none"
    /\ wrap.r.ok
    /\ ~wrap.unwrapped
    /\ wrap' = [wrap EXCEPT !.unwrapped = TRUE,
                             !.out = to_c_of(wrap.kind, wrap.r.v)]
    /\ UNCHANGED <<trampVars, regVars, tableVars, memVars, errVars, libVars, thrVars>>

\* the wrapper (or the error) goes out of scope; no wrapper implements Drop
WrapRelease ==
    /\ wrap.how # "none"
    /\ wrap' = NoWrap
    /\ UNCHANGED <<trampVars, regVars, tableVars, memVars, errVars, libVars, thrVars>>

\* the host changes one of its own objects
HostWrite ==
    /\ \E p \in 1 .. MaxPtr, v \in MemValues :
        /\ hostMem[p] # v
        /\ hostMem' = [hostMem EXCEPT ![p] = v]
    /\ UNCHANGED <<trampVars, regVars, tableVars, wrapVars, pwrites,
                   errVars, libVars, thrVars>>

NextWrap == WrapDefault \/ WrapFromC \/ Unwrap \/ WrapRelease \/ HostWrite

SpecWrap == Init /\ [][NextWrap]_vars

(***************************************************************************)
(* The host objects behind the arguments of create                         *)
(***************************************************************************)
RangeOf(seq) == {seq[i] : i \in DOMAIN seq}
\* the memory after the objects in ws have been written
Written(mem, ws) ==
    [p \in DOMAIN mem |-> IF p \in ws THEN 1 - mem[p] ELSE mem[p]]

\* the host calls create; a plugin that is invoked may write, through the
\* handles it receives, the objects pw before it returns
Mem_create ==
    /\ call = NoCall
    /\ \E T \in PluginTypes, c_user_ns \in Ptrs, c_inode \in Ptrs,
          c_dentry \in Ptrs, out \in PluginResults,
          pw \in SUBSET (1 .. MaxPtr) :
        LET r == create(c_user_ns, c_inode, c_dentry, out)
            byPlugin == IF r.calls = 1 THEN pw \cap RangeOf(r.saw) ELSE {}
        IN  /\ byPlugin = pw
            /\ call' = MkCall("create", T, <<c_user_ns, c_inode, c_dentry>>,
                              <<>>, out)
            /\ res' = r
            /\ pwrites' = byPlugin
            /\ hostMem' =
                  Written(hostMem,
                          create_writes(c_user_ns, c_inode, c_dentry)
                              \cup byPlugin)
    /\ UNCHANGED <<regVars, tableVars, wrapVars, errVars, libVars, thrVars>>

NextMem == Mem_create \/ HostReturn \/ HostWrite

SpecMem == Init /\ [][NextMem]_vars

(***************************************************************************)
(* The stat-info of getattr and the attributes of setattr                  *)
(***************************************************************************)
\* let mut kstat = unsafe { *c_kstat };  let mut attr = unsafe { *c_attr };
\* a local of the trampoline holding a bitwise copy of the host's object
LocalCopy(mem, p) == [local |-> TRUE, of |-> p, val |-> mem[p]]

\* the plugin stores v into the object arg it was given by &mut: a local of
\* the trampoline is changed and dropped at the return, the host's object
\* stays as it was
StoreThrough(mem, arg, v) ==
    IF arg.local THEN mem ELSE [mem EXCEPT ![arg.of] = v]

\* the host calls getattr; the plugin, when invoked, stores v into its
\* stat-info argument before it returns
Attr_getattr ==
    /\ call = NoCall
    /\ \E T \in PluginTypes, c_user_ns \in Ptrs, c_path \in Ptrs,
          c_kstat \in Ptrs, out \in PluginResults, v \in MemValues :
        LET r == getattr(c_user_ns, c_path, c_kstat, out)
        IN  /\ call' = MkCall("getattr", T, <<c_user_ns, c_path, c_kstat>>,
                              <<>>, out)
            /\ res' = r
            /\ IF r.calls = 1
               THEN /\ pwrites' = {<<c_kstat, v>>}
                    /\ hostMem' =
                          StoreThrough(hostMem, LocalCopy(hostMem, c_kstat), v)
               ELSE pwrites' = {} /\ hostMem' = hostMem
    /\ UNCHANGED <<regVars, tableVars, wrapVars, errVars, libVars, thrVars>>

\* the host calls setattr; the plugin, when invoked, stores v into its
\* attribute argument before it returns
Attr_setattr ==
    /\ call = NoCall
    /\ \E T \in PluginTypes, c_user_ns \in Ptrs, c_dentry \in Ptrs,
          c_attr \in Ptrs, out \in PluginResults, v \in MemValues :
        LET r == setattr(c_user_ns, c_dentry, c_attr, out)
        IN  /\ call' = MkCall("setattr", T, <<c_user_ns, c_dentry, c_attr>>,
                              <<>>, out)
            /\ res' = r
            /\ IF r.calls = 1
               THEN /\ pwrites' = {<<c_attr, v>>}
                    /\ hostMem' =
                          StoreThrough(hostMem, LocalCopy(hostMem, c_attr), v)
               ELSE pwrites' = {} /\ hostMem' = hostMem
    /\ UNCHANGED <<regVars, tableVars, wrapVars, errVars, libVars, thrVars>>

\* the host takes the result; what the plugin stored is no longer tracked
AttrReturn ==
    /\ call # NoCall
    /\ call' = NoCall
    /\ res' = NoRes
    /\ pwrites' = {}
    /\ UNCHANGED <<regVars, tableVars, wrapVars, hostMem, errVars, libVars, thrVars>>

\* the host changes one of its objects between two calls
AttrHostWrite == call = NoCall /\ HostWrite

NextAttr == Attr_getattr \/ Attr_setattr \/ AttrReturn \/ AttrHostWrite

SpecAttr == Init /\ [][NextAttr]_vars

(***************************************************************************)
(* A fill_super that builds its files with treedescr! (rust_ramfs.rs)      *)
(***************************************************************************)
\* the plugin's fill_super is entered; its source declares the entries
InitTree ==
    /\ TrampIdle /\ RegIdle /\ TableIdle
    /\ WrapIdle /\ HostMemIdle /\ ErrIdle /\ ThreadsIdle
    /\ PrintIdle /\ FmtIdle
    /\ desc \in {[st |-> "declared", entries |-> es, r |-> Err("none")] :
                    es \in SeqsUpTo(TreeDecl, MaxEntries)}

\* the macro runs; the allocator serves cap elements
TreeBuild ==
    /\ desc.st = "declared"
    /\ \E cap \in 0 .. MaxEntries + 3 :
        desc' = [desc EXCEPT !.st = "built", !.r = treedescr(desc.entries, cap)]
    /\ UNCHANGED <<coreVars, printVars, fmtVars>>

\* fill_super returns: desc goes out of scope and the vector is freed
TreeDrop ==
    /\ desc.st = "built"
    /\ desc' = [desc EXCEPT !.st = "declared", !.r = Err("none")]
    /\ UNCHANGED <<coreVars, printVars, fmtVars>>

NextTree == TreeBuild \/ TreeDrop

SpecTree == InitTree /\ [][NextTree]_vars

(***************************************************************************)
(* Errors crossing the boundary in both directions                         *)
(***************************************************************************)
\* an Error of kind e is turned into its host code
ErrToHost ==
    /\ errSt.stage = "none"
    /\ \E e \in AllErrorKinds :
        errSt' = [stage |-> "toHost", e |-> e, code |-> to_kernel_errno(e),
                  back |-> "none", ret |-> 0]
    /\ UNCHANGED <<trampVars, regVars, tableVars, wrapVars, memVars, thrVars,
                   libVars>>

\* and the host code is turned into an Error again
ErrFromHost ==
    /\ errSt.stage = "toHost"
    /\ errSt' = [errSt EXCEPT !.stage = "back",
                               !.back = from_kernel_errno(errSt.code),
                               !.ret = to_kernel_errno(
                                          from_kernel_errno(errSt.code))]
    /\ UNCHANGED <<trampVars, regVars, tableVars, wrapVars, memVars, thrVars,
                   libVars>>

\* the host helper behind simple_fill_super returns rt to a fill_super
\* that fill_super_callback called, or the one behind simple_statfs to a
\* statfs that statfs_callback called
ErrThroughHelper ==
    /\ errSt.stage = "none"
    /\ \E rt \in HostCodes, sb \in 1 .. MaxPtr,
          helper \in {"simple_fill_super", "simple_statfs"} :
        LET r == IF helper = "simple_fill_super" THEN simple_fill_super(rt)
                 ELSE simple_statfs(rt)
            t == IF helper = "simple_fill_super"
                 THEN fill_super_callback(sb, NULL, PluginOutcomeOf(r))
                 ELSE statfs_callback(sb, sb, PluginOutcomeOf(r))
        IN  errSt' = [stage |-> helper, e |-> "none", code |-> rt,
                      back |-> IF r.ok THEN "none" ELSE r.e,
                      ret |-> t.ret.val]
    /\ UNCHANGED <<trampVars, regVars, tableVars, wrapVars, memVars, thrVars,
                   libVars>>

ErrDone ==
    /\ errSt.stage # "none"
    /\ errSt' = NoErrSt
    /\ UNCHANGED <<trampVars, regVars, tableVars, wrapVars, memVars, thrVars,
                   libVars>>

NextErr == ErrToHost \/ ErrFromHost \/ ErrThroughHelper \/ ErrDone

SpecErr == Init /\ [][NextErr]_vars

(***************************************************************************)
(* Trampolines step by step on concurrent execution contexts: the host     *)
(* calls, the trampoline wraps its arguments and hands over to the plugin, *)
(* the plugin's method returns and the trampoline returns to the host.     *)
(* call and res show an invocation in the state in which it returns.       *)
(***************************************************************************)
\* what the method behind a trampoline can do
OutcomesOf(tramp) ==
    CASE tramp \in {"mount_callback", "lookup"} -> PluginDentryResults
      [] tramp \in {"drop_inode_callback", "d_delete_callback"} -> PluginBools
      [] tramp \in {"destroy_inode_callback", "free_inode_callback",
                    "evict_inode_callback", "kill_sb_callback"} -> PluginUnits
      [] OTHER -> PluginResults

\* locals kept in one static that every invocation uses
SharedFrame(frames, t) ==
    IF \E u \in DOMAIN frames : u # t /\ frames[u].pc = "inPlugin"
    THEN frames[CHOOSE u \in DOMAIN frames :
                    u # t /\ frames[u].pc = "inPlugin"]
    ELSE frames[t]
\* the locals of the invocation on context t (the raw arguments, the
\* wrappers, rs): each invocation has them in its own stack frame
OwnFrame(frames, t) == frames[t]

\* the host on context t calls one of the trampolines tramps
ConcCall(t, tramps, types) ==
    /\ thr[t].pc = "idle"
    /\ \E tramp \in tramps, T \in types :
        \E mt \in IF tramp = "mount_callback" THEN MountTypes
                   ELSE {"Custom"},
           hostRet \in IF tramp = "mount_callback" THEN HostDentryPtrs
                       ELSE {NULL},
           hargs \in [1 .. HandleArity(tramp) -> Ptrs],
           sargs \in [1 .. StrArity(tramp) -> Ptrs] :
            thr' = [thr EXCEPT ![t] =
                      [pc |-> "entered",
                       c |-> [tramp |-> tramp, T |-> T, hargs |-> hargs,
                              sargs |-> sargs, mt |-> mt,
                              hostRet |-> hostRet,
                              out |-> TraitDefault(tramp)],
                       ub |-> "proceed", garbage |-> 0, cause |-> "none"]]
    /\ call' = NoCall
    /\ res' = NoRes
    /\ UNCHANGED <<regVars, tableVars, wrapVars, memVars, errVars, libVars, rthr, pthr>>

\* the trampoline on context t wraps its arguments: it returns at once,
\* faults, or hands over to the plugin
ConcMarshal(t) ==
    /\ thr[t].pc = "entered"
    /\ \E ub \in IF thr[t].c.tramp = "symlink" THEN {"fault", "proceed"}
                   ELSE {"proceed"},
          garbage \in IF thr[t].c.tramp = "symlink" THEN GarbageStrs
                      ELSE {0} :
        /\ LET r == Trampoline(OwnFrame(thr, t).c, ub, garbage)
           IN  IF r.calls = 1
               THEN /\ thr' = [thr EXCEPT ![t].pc = "inPlugin",
                                          ![t].ub = ub,
                                          ![t].garbage = garbage]
                    /\ call' = NoCall
                    /\ res' = NoRes
               ELSE IF r.ret = Fault
               THEN /\ thr' = [thr EXCEPT ![t] =
                                     [ThreadIdle EXCEPT
                                         !.pc = "faulted",
                                         !.cause = "trampoline"]]
                    /\ call' = NoCall
                    /\ res' = NoRes
               ELSE /\ thr' = [thr EXCEPT ![t] = ThreadIdle]
                    /\ call' = thr[t].c
                    /\ res' = r
    /\ UNCHANGED <<regVars, tableVars, wrapVars, memVars, errVars, libVars, rthr, pthr>>

\* the plugin's method on context t comes to its end; the trampoline maps
\* what it gave and returns to the host
ConcPluginReturns(t) ==
    /\ thr[t].pc = "inPlugin"
    /\ \E out \in OutcomesOf(thr[t].c.tramp) :
        LET frames == [thr EXCEPT ![t].c.out = out]
            f == OwnFrame(frames, t)
            r == Trampoline(f.c, f.ub, f.garbage)
        IN  IF r.ret = Fault
            THEN /\ thr' = [thr EXCEPT ![t] =
                                  [ThreadIdle EXCEPT !.pc = "faulted",
                                                     !.cause = "plugin"]]
                 /\ call' = NoCall
                 /\ res' = NoRes
            ELSE /\ thr' = [thr EXCEPT ![t] = ThreadIdle]
                 /\ call' = frames[t].c
                 /\ res' = r
    /\ UNCHANGED <<regVars, tableVars, wrapVars, memVars, errVars, libVars, rthr, pthr>>

\* the host on context t calls one of the trampolines tramps and the
\* trampoline wraps its arguments, which involves its own frame only: it
\* returns at once or hands over to the plugin
ConcEnter(t, tramps, types) ==
    /\ thr[t].pc = "idle"
    /\ \E tramp \in tramps, T \in types :
        \E hargs \in [1 .. HandleArity(tramp) -> Ptrs] :
        LET c == MkCall(tramp, T, hargs, <<>>, TraitDefault(tramp))
            frames == [thr EXCEPT ![t].c = c]
            r == Trampoline(OwnFrame(frames, t).c, "proceed", 0)
        IN  IF r.calls = 1
            THEN /\ thr' = [frames EXCEPT ![t].pc = "inPlugin"]
                 /\ call' = NoCall
                 /\ res' = NoRes
            ELSE /\ thr' = thr
                 /\ call' = c
                 /\ res' = r
    /\ UNCHANGED <<regVars, tableVars, wrapVars, memVars, errVars, libVars, rthr, pthr>>

\* the trampolines that run concurrently, those of one plugin type that
\* take no char pointer
ConcTramps == {"mkdir", "statfs_callback"}
NextConc ==
    \E t \in Threads :
        ConcEnter(t, ConcTramps, {"T1"}) \/ ConcPluginReturns(t)

SpecConc == Init /\ [][NextConc]_vars

\* one context, every trampoline; the trampoline's own code keeps running
\* once called, and the plugin's method comes to its end
NextTerm ==
    \/ ConcCall(1, AllTramps, PluginTypes)
    \/ ConcMarshal(1)
    \/ ConcPluginReturns(1)

SpecTerm ==
    /\ Init
    /\ [][NextTerm]_vars
    /\ WF_vars(ConcMarshal(1))
    /\ WF_vars(ConcPluginReturns(1))

(***************************************************************************)
(* register_self on concurrent execution contexts.  The host's             *)
(* register_filesystem is one step: the host serialises its registry.      *)
(***************************************************************************)
\* context t calls register_self, which allocates and fills the record
RegStart(t) ==
    /\ rthr[t].pc = "idle"
    /\ Len(heap) < MaxRecs
    /\ \E T \in PluginTypes, name \in Names, allocOk \in BOOLEAN :
        LET a == register_self_alloc(T, name, "m1", allocOk, heap)
        IN  /\ heap' = a.heap
            /\ rthr' = [rthr EXCEPT ![t] =
                          [pc |-> IF a.res.ok THEN "allocated"
                                  ELSE "returned",
                           T |-> T, name |-> name, owner |-> "m1",
                           p |-> a.res.v, err |-> 0, r |-> a.res]]
    /\ UNCHANGED <<registry, handles, unregistered, regOp, trampVars,
                   tableVars, wrapVars, memVars, errVars, libVars, thr, pthr>>

\* register_self on context t calls the host's register_filesystem
RegPublish(t) ==
    /\ rthr[t].pc = "allocated"
    /\ LET host == register_filesystem(registry, heap, rthr[t].p)
       IN  /\ registry' = host.reg
           /\ rthr' = [rthr EXCEPT ![t].pc = "published",
                                    ![t].err = host.err]
    /\ UNCHANGED <<heap, handles, unregistered, regOp, trampVars, tableVars,
                   wrapVars, memVars, errVars, libVars, thr, pthr>>

\* register_self on context t returns
RegFinish(t) ==
    /\ rthr[t].pc = "published"
    /\ LET f == register_self_result(rthr[t].err, rthr[t].p, heap)
       IN  /\ heap' = f.heap
           /\ handles' = IF f.res.ok THEN handles \cup {f.res.v}
                         ELSE handles
           /\ rthr' = [rthr EXCEPT ![t].pc = "returned", ![t].r = f.res]
    /\ UNCHANGED <<registry, unregistered, regOp, trampVars, tableVars,
                   wrapVars, memVars, errVars, libVars, thr, pthr>>

NextRegConc ==
    \E t \in Threads : RegStart(t) \/ RegPublish(t) \/ RegFinish(t)

SpecRegConc == Init /\ [][NextRegConc]_vars

(***************************************************************************)
(* print_macro_ratelimited! (print.rs): one call site with its statics     *)
(* PRINTK_RS, PRINTK_RS_PTR and PRINTK_RS_AVAILABLE, run by several        *)
(* contexts at once.  Every atomic access (all SeqCst) and every call is   *)
(* one step of the invoking context.                                       *)
(***************************************************************************)
\* AtomicBool::compare_exchange(current, new) on a cell holding cur
compare_exchange_blind(cur, current, new) == [ok |-> TRUE, val |-> new]
compare_exchange(cur, current, new) ==
    IF cur = current THEN [ok |-> TRUE, val |-> new]
    ELSE [ok |-> FALSE, val |-> cur]

\* PRINTK_RS.as_mut_ptr()
rs_as_mut_ptr == CHOOSE p \in Ptrs : p # NULL
\* rust_helper_ratelimit_state_init(rs): interval and burst are set
rust_helper_ratelimit_state_init(rs) == "ready"
\* what ___ratelimit may answer: 0 suppresses, non-zero lets through
RatelimitAnswers == {0, 1}

\* where the initialising branch goes after zeroing PRINTK_RS
PcAfterZero_noInit == "chk"
PcAfterZero == "init"
\* the first load of the condition at line 268: a null pointer makes the
\* condition true at once
PcAfterFirstLoad_spin(p) == IF p = NULL THEN "load1" ELSE "load2"
PcAfterFirstLoad(p) == IF p = NULL THEN "print" ELSE "load2"

\* the invocation a context is running
InvOf(t) == <<t, prt[t].n>>

\* a context reaches the call site
PrintCall(t) ==
    /\ prt[t].pc = "idle"
    /\ prt[t].n < MaxPrints
    /\ prt' = [prt EXCEPT ![t] = [PrintThreadIdle EXCEPT
                                    !.pc = "cas", !.n = prt[t].n + 1]]
    /\ UNCHANGED <<rl, coreVars, treeVars, fmtVars>>

\* PRINTK_RS_AVAILABLE.compare_exchange(false, true, SeqCst, SeqCst).is_ok()
PrintCas(t) ==
    /\ prt[t].pc = "cas"
    /\ LET r == compare_exchange(rl.avail, FALSE, TRUE)
       IN  /\ rl' = [rl EXCEPT !.avail = r.val,
                               !.winners = IF r.ok THEN @ \cup {InvOf(t)}
                                           ELSE @]
           /\ prt' = [prt EXCEPT ![t].pc = IF r.ok THEN "zero" ELSE "load1",
                                 ![t].won = r.ok]
    /\ UNCHANGED <<coreVars, treeVars, fmtVars>>

\* *PRINTK_RS.as_mut_ptr() = ratelimit_state::default();
PrintZero(t) ==
    /\ prt[t].pc = "zero"
    /\ rl' = [rl EXCEPT !.rs = "zeroed", !.zeroes = @ + 1,
                        !.initBy = @ \cup {InvOf(t)}]
    /\ prt' = [prt EXCEPT ![t].pc = PcAfterZero]
    /\ UNCHANGED <<coreVars, treeVars, fmtVars>>

\* rust_helper_ratelimit_state_init(PRINTK_RS.as_mut_ptr());
PrintInit(t) ==
    /\ prt[t].pc = "init"
    /\ rl' = [rl EXCEPT !.rs = rust_helper_ratelimit_state_init(rl.rs),
                        !.inits = @ + 1,
                        !.initBy = @ \cup {InvOf(t)}]
    /\ prt' = [prt EXCEPT ![t].pc = "chk"]
    /\ UNCHANGED <<coreVars, treeVars, fmtVars>>

\* if PRINTK_RS_PTR.load(SeqCst).is_null()
PrintChk(t) ==
    /\ prt[t].pc = "chk"
    /\ prt' = [prt EXCEPT ![t].pc = IF rl.ptr = NULL THEN "store"
                                    ELSE "load1"]
    /\ UNCHANGED <<rl, coreVars, treeVars, fmtVars>>

\* PRINTK_RS_PTR.store(PRINTK_RS.as_mut_ptr(), SeqCst);
PrintStore(t) ==
    /\ prt[t].pc = "store"
    /\ rl' = [rl EXCEPT !.ptr = rs_as_mut_ptr, !.stores = @ + 1,
                        !.rsAtStore = rl.rs]
    /\ prt' = [prt EXCEPT ![t].pc = "load1"]
    /\ UNCHANGED <<coreVars, treeVars, fmtVars>>

\* PRINTK_RS_PTR.load(SeqCst).is_null() ||
PrintLoad1(t) ==
    /\ prt[t].pc = "load1"
    /\ prt' = [prt EXCEPT ![t].pc = PcAfterFirstLoad(rl.ptr),
                          ![t].sawNull = rl.ptr = NULL,
                          ![t].busy = rl.avail /\ rl.ptr = NULL
                                        /\ ~prt[t].won]
    /\ UNCHANGED <<rl, coreVars, treeVars, fmtVars>>

\* the argument PRINTK_RS_PTR.load(SeqCst) of ___ratelimit
PrintLoad2(t) ==
    /\ prt[t].pc = "load2"
    /\ prt' = [prt EXCEPT ![t].pc = "ratelimit", ![t].p = rl.ptr]
    /\ UNCHANGED <<rl, coreVars, treeVars, fmtVars>>

\* ___ratelimit(p, where) != 0: the host decides on the state behind p
PrintRatelimit(t) ==
    /\ prt[t].pc = "ratelimit"
    /\ \E ret \in RatelimitAnswers :
        /\ prt' = [prt EXCEPT ![t].pc = IF ret # 0 THEN "print" ELSE "done",
                              ![t].ret = ret,
                              ![t].out = IF ret # 0 THEN @ ELSE "suppressed"]
        /\ rl' = [rl EXCEPT !.calls = @ \cup {[p |-> prt[t].p, rs |-> rl.rs]}]
    /\ UNCHANGED <<coreVars, treeVars, fmtVars>>

\* call_printk(&$format_string, __LOG_PREFIX, format_args!(..))
PrintPrintk(t) ==
    /\ prt[t].pc = "print"
    /\ prt' = [prt EXCEPT ![t].pc = "done", ![t].out = "printed"]
    /\ UNCHANGED <<rl, coreVars, treeVars, fmtVars>>

\* the macro's block ends
PrintReturn(t) ==
    /\ prt[t].pc = "done"
    /\ prt' = [prt EXCEPT ![t] = [PrintThreadIdle EXCEPT !.n = prt[t].n]]
    /\ UNCHANGED <<rl, coreVars, treeVars, fmtVars>>

\* a step of an invocation in progress
PrintStep(t) ==
    \/ PrintCas(t)
    \/ PrintZero(t)
    \/ PrintInit(t)
    \/ PrintChk(t)
    \/ PrintStore(t)
    \/ PrintLoad1(t)
    \/ PrintLoad2(t)
    \/ PrintRatelimit(t)
    \/ PrintPrintk(t)
    \/ PrintReturn(t)

NextPrint == \E t \in Threads : PrintCall(t) \/ PrintStep(t)

SpecPrint == Init /\ [][NextPrint]_vars

\* the first context takes its steps; the others may stop anywhere
SpecPrintLive == Init /\ [][NextPrint]_vars /\ WF_vars(PrintStep(1))

(***************************************************************************)
(* rust_fmt_argument (print.rs): the Writer that vsprintf's %pA runs over  *)
(* [buf, end).  Addresses are usize values of AddrBits bits.               *)
(***************************************************************************)
MaxAddr == 2 ^ AddrBits - 1
Addrs == 0 .. MaxAddr
Min(a, b) == IF a <= b THEN a ELSE b
\* usize::wrapping_add
wrapping_add(a, b) == (a + b) % (MaxAddr + 1)
\* usize::saturating_add and usize::saturating_sub
saturating_add(a, b) == IF a + b > MaxAddr THEN MaxAddr ELSE a + b
saturating_sub(a, b) == IF a < b THEN 0 ELSE a - b

\* Writer::write_str on a string of len bytes: the new position and the
\* bytes copied_nonoverlapping to self.buf
write_str(w, len) ==
    LET buf_new == saturating_add(w.buf, len)
        len_to_copy == saturating_sub(Min(buf_new, w.end), w.buf)
    IN  [buf |-> buf_new, end |-> w.end, len_to_copy |-> len_to_copy,
         dst |-> {a \in Addrs : w.buf <= a /\ a < w.buf + len_to_copy}]

\* vsprintf calls rust_fmt_argument(buf, end, ptr) with a non-null buf
InitFmt ==
    /\ TrampIdle /\ RegIdle /\ TableIdle
    /\ WrapIdle /\ HostMemIdle /\ ErrIdle /\ ThreadsIdle
    /\ TreeIdle /\ PrintIdle
    /\ \E buf \in Addrs \ {NULL}, end \in Addrs :
        fmt = [NoFmt EXCEPT !.st = "writing", !.buf0 = buf, !.end = end,
                            !.buf = buf]

\* w.write_fmt(..) hands the next piece of the formatted text to write_str
FmtWriteStr ==
    /\ fmt.st = "writing"
    /\ fmt.pieces < MaxPieces
    /\ \E len \in 0 .. MaxStr :
        LET r == write_str([buf |-> fmt.buf, end |-> fmt.end], len)
        IN  fmt' = [fmt EXCEPT !.buf = r.buf,
                               !.pieces = @ + 1,
                               !.total = @ + len,
                               !.copied = @ + r.len_to_copy,
                               !.wrote = @ \cup r.dst,
                               !.lastFrom = fmt.buf,
                               !.lastLen = len,
                               !.lastCopied = r.len_to_copy]
    /\ UNCHANGED <<coreVars, treeVars, printVars>>

\* w.buf as _
FmtReturn ==
    /\ fmt.st = "writing"
    /\ fmt' = [fmt EXCEPT !.st = "returned", !.ret = fmt.buf]
    /\ UNCHANGED <<coreVars, treeVars, printVars>>

NextFmt == FmtWriteStr \/ FmtReturn

SpecFmt == InitFmt /\ [][NextFmt]_vars

(***************************************************************************)
(* Properties of the trampolines (Spec)                                    *)
(***************************************************************************)
Called == call.tramp # "none"
HasNullHandle == \E i \in DOMAIN call.hargs : call.hargs[i] = NULL
AllRawNonNull ==
    /\ \A i \in DOMAIN call.hargs : call.hargs[i] # NULL
    /\ \A i \in DOMAIN call.sargs : call.sargs[i] # NULL

IntTramps ==
    {"fill_super_callback", "create", "link", "unlink", "symlink", "mkdir",
     "rmdir", "mknod", "rename", "setattr", "getattr", "statfs_callback",
     "show_options_callback"}
PtrTramps == {"mount_callback", "lookup"}
BoolTramps == {"drop_inode_callback", "d_delete_callback"}
NotifyTramps ==
    {"destroy_inode_callback", "free_inode_callback", "evict_inode_callback",
     "kill_sb_callback"}

\* C1: the plugin's method is never invoked when a raw handle argument is
\* null, and no handle the plugin receives wraps a null pointer.
C1_PluginNeverSeesNull ==
    Called =>
        /\ HasNullHandle => res.calls = 0
        /\ \A i \in DOMAIN res.saw : res.saw[i] # NULL

\* rename was called with only its last handle null and did not invoke
C1_Witness ==
    /\ call.tramp = "rename"
    /\ \A i \in 1 .. 4 : call.hargs[i] # NULL
    /\ call.hargs[5] = NULL
    /\ res.calls = 0
    /\ res.ret = IntRet(to_kernel_errno("EINVAL"))

\* C2: a trampoline that returns a value and is passed a null raw handle
\* returns the host's InvalidArgument code (-EINVAL).
C2_NullHandleGivesEINVAL ==
    (Called /\ HasNullHandle /\ call.tramp \notin NotifyTramps) =>
        /\ res.ret.kind \in {"int", "ptr"}
        /\ res.ret.val = to_kernel_errno("EINVAL")

\* C4: an integer-returning trampoline called with all raw arguments
\* non-null invokes the plugin exactly once, returns 0 if and only if the
\* plugin returned Ok, and returns the host code of e on Err(e).
C4_IntResult ==
    (call.tramp \in IntTramps /\ AllRawNonNull) =>
        /\ res.calls = 1
        /\ call.out.tag = "Ok" => res.ret = IntRet(0)
        /\ call.out.tag = "Err" =>
                res.ret = IntRet(to_kernel_errno(call.out.e))
        /\ res.ret = IntRet(0) => call.out.tag = "Ok"

\* unlink, all arguments non-null, the plugin returned Err(EPERM)
C4_Witness ==
    /\ call.tramp = "unlink"
    /\ AllRawNonNull
    /\ call.out = PluginErr("EPERM")
    /\ res.calls = 1
    /\ res.ret = IntRet(-1)

\* C5: whatever the raw arguments and whatever the plugin does, the
\* trampoline ends by returning a value to the host; no fault crosses.
C5_NoFaultCrosses ==
    Called => res.ret.kind # "fault"

\* C9: a notification-only trampoline reports nothing to the host: with a
\* non-null handle it invokes the plugin once on that handle and discards
\* what it produces, with a null handle it returns without invoking it; it
\* returns no value and calls nothing of the host.
C9_NotifyOnly ==
    call.tramp \in NotifyTramps =>
        /\ res.ret.kind \notin {"int", "ptr"}
        /\ res.helpers = <<>>
        /\ IF call.hargs[1] = NULL
           THEN res.calls = 0 /\ res.ret = VoidRet
           ELSE /\ res.calls = 1
                /\ res.saw = call.hargs
                /\ call.out.tag # "Panic" => res.ret = VoidRet

\* evict_inode_callback on a non-null inode has invoked the plugin
C9_Witness ==
    /\ call.tramp = "evict_inode_callback"
    /\ call.hargs[1] # NULL
    /\ res.calls = 1
    /\ res.ret = VoidRet

\* C10 as stated: a boolean-returning trampoline returns 1 exactly when the
\* plugin returned true, 0 exactly when it returned false, and never an
\* errno-style code, for any input.
C10_NeverErrno ==
    (call.tramp \in BoolTramps /\ res.ret.kind = "int") =>
        /\ res.calls = 1 => (res.ret.val = 1 <=> call.out.tag = "True")
        /\ res.calls = 1 => (res.ret.val = 0 <=> call.out.tag = "False")
        /\ res.ret.val >= 0

\* C10 amended: with a non-null handle the plugin is invoked once and its
\* boolean is returned as 1 or 0 without error translation; with a null
\* handle the plugin is not invoked, drop_inode_callback returns -EINVAL
\* and d_delete_callback returns 1.
C10_BoolMapping ==
    call.tramp \in BoolTramps =>
        IF call.hargs[1] # NULL
        THEN /\ res.calls = 1
             /\ call.out.tag = "True" => res.ret = IntRet(1)
             /\ call.out.tag = "False" => res.ret = IntRet(0)
        ELSE /\ res.calls = 0
             /\ call.tramp = "drop_inode_callback" =>
                    res.ret = IntRet(to_kernel_errno("EINVAL"))
             /\ call.tramp = "d_delete_callback" => res.ret = IntRet(1)

\* drop_inode_callback on a non-null inode, the plugin returned true
C10_Witness ==
    /\ call.tramp = "drop_inode_callback"
    /\ call.hargs[1] # NULL
    /\ call.out.tag = "True"
    /\ res.ret = IntRet(1)

(***************************************************************************)
(* Properties of the tables (SpecTable)                                    *)
(***************************************************************************)
\* C3: the built table has that operation's trampoline exactly at the slots
\* whose capability flag is true and None at every other slot.
C3_TableMatchesToUse ==
    table.kind # "none" =>
        \A slot \in SlotsOf(table.kind) :
            IF slot \in decl.to_use
            THEN table.ops[slot] = Some(CallbackOf(table.kind, slot), table.T)
            ELSE table.ops[slot] = None

(***************************************************************************)
(* Properties of the registration (SpecReg)                                *)
(***************************************************************************)
RegNames == {heap[p].name : p \in registry}

\* C6: on a handle from a successful register_self, the first
\* unregister_self succeeds and takes the handle and its name out of the
\* registry, every later one returns an error and changes nothing; an
\* unregistered handle is never in the registry again, and a name enters
\* the registry only by a register_self that succeeds.
C6_UnregisterTwice ==
    /\ [](unregistered \cap registry = {})
    /\ [][/\ regOp'.op = "unregister" =>
                IF regOp'.h \in unregistered
                THEN ~regOp'.ok /\ registry' = registry
                ELSE /\ regOp'.ok
                     /\ regOp'.h \notin registry'
                     /\ regOp'.name \notin {heap[p].name : p \in registry'}
          /\ \A n \in Names :
                (n \notin RegNames /\ n \in {heap'[p].name : p \in registry'})
                    => (regOp'.op = "register" /\ regOp'.ok
                        /\ regOp'.name = n)
         ]_vars

\* the second unregister_self on a handle has returned an error
C6_Witness ==
    /\ regOp.op = "unregister"
    /\ regOp.h \in unregistered
    /\ ~regOp.ok
    /\ regOp.name \notin RegNames

\* C7: register_self for a name that is registered returns Err and leaves
\* the registry and the handles as they are; the registry never holds two
\* entries of one name.
C7_DoubleRegisterFails ==
    /\ [](\A p, q \in registry : heap[p].name = heap[q].name => p = q)
    /\ [][(regOp'.op = "register" /\ regOp'.name \in RegNames) =>
                /\ ~regOp'.ok
                /\ registry' = registry
                /\ handles' = handles
                /\ \A p \in registry : heap'[p] = heap[p]
         ]_vars

\* a second register_self of a registered name and type was rejected
C7_Witness ==
    /\ regOp.op = "register"
    /\ ~regOp.ok
    /\ regOp.hostErr # 0
    /\ \E p \in registry \cap handles :
            /\ heap[p].name = regOp.name
            /\ heap[p].mount = Some("mount_callback", regOp.T)

\* C8: register_self publishes if and only if it returns Ok: on Ok the
\* registry gains one entry with the name, the owner and the mount and
\* kill_sb trampolines of the plugin type; on Err the registry is unchanged,
\* no handle is handed out, and a rejection carries the host's code.
C8_PublishesIffOk ==
    [][regOp'.op = "register" =>
        IF regOp'.ok
        THEN /\ regOp'.h \notin registry
             /\ registry' = registry \cup {regOp'.h}
             /\ handles' = handles \cup {regOp'.h}
             /\ heap'[regOp'.h] =
                    [mount |-> Some("mount_callback", regOp'.T),
                     kill_sb |-> Some("kill_sb_callback", regOp'.T),
                     owner |-> regOp'.owner, name |-> regOp'.name,
                     live |-> TRUE]
        ELSE /\ registry' = registry
             /\ handles' = handles
             /\ regOp'.hostErr # 0 =>
                    to_kernel_errno(regOp'.e) = regOp'.hostErr
     ]_vars

\* register_self has returned Ok and its record is in the registry
C8_Witness ==
    /\ regOp.op = "register"
    /\ regOp.ok
    /\ regOp.h \in registry
    /\ heap[regOp.h].owner = regOp.owner

(***************************************************************************)
(* Properties of the handle wrappers (SpecWrap)                            *)
(***************************************************************************)
\* C11: no wrapper holds a null pointer: whenever a wrapper has been
\* constructed by a public constructor, the pointer it holds, and so the
\* pointer to_c_* returns, is not null.
C11_WrapperNeverNull ==
    (wrap.how # "none" /\ wrap.r.ok) =>
        /\ to_c_of(wrap.kind, wrap.r.v) # NULL
        /\ wrap.unwrapped => wrap.out # NULL

\* C12: for every wrapper kind and every non-null pointer p, from_c_*(p)
\* succeeds and to_c_* on the wrapper returns p, and no step that wraps,
\* unwraps or releases a wrapper changes a host object.
C12_RoundTripState ==
    (wrap.how = "from_c" /\ wrap.raw # NULL) =>
        /\ wrap.r.ok
        /\ wrap.unwrapped => wrap.out = wrap.raw
C12_RoundTrip ==
    /\ []C12_RoundTripState
    /\ [][wrap' # wrap => hostMem' = hostMem]_vars

\* a SeqFile has been wrapped around the highest pointer and unwrapped
\* again, behind a host object that has been written
C12_Witness ==
    /\ wrap.kind = "SeqFile"
    /\ wrap.how = "from_c"
    /\ wrap.raw = MaxPtr
    /\ wrap.unwrapped
    /\ wrap.out = MaxPtr
    /\ hostMem[MaxPtr] = 1

(***************************************************************************)
(* Properties of the tables in use (SpecPub, SpecTable)                    *)
(***************************************************************************)
\* C13: once the table of a plugin type is published, no step changes it:
\* building it again yields the same contents, and no call through a slot,
\* registration or unregistration, in any interleaving, changes a slot.
C13_TableNeverChanges ==
    [][table.kind # "none" => table' = table]_vars

\* one context has built the published table again while the other is in
\* the plugin through its statfs slot and the type has been unregistered
C13_Witness ==
    /\ table.kind = "super"
    /\ table.ops["statfs"] = Some("statfs_callback", decl.T)
    /\ pthr[1].pc = "rebuilt"
    /\ pthr[2] = [pc |-> "inPlugin", slot |-> "statfs"]
    /\ regOp.op = "unregister"
    /\ regOp.ok

\* C14: a table is never built with a trampoline in a slot whose trait
\* method the plugin does not override.
C14_NoTrampolineForUnimplemented ==
    table.kind # "none" =>
        \A slot \in DOMAIN table.ops :
            table.ops[slot] # None => slot \in decl.overrides

(***************************************************************************)
(* Properties of the default trait methods (SpecDefault)                   *)
(***************************************************************************)
\* the error kind that says "not supported"
NotSupported == "ENOSYS"
FallibleTramps == IntTramps \cup PtrTramps

\* C15: a fallible trait method that the plugin does not override returns
\* the not-supported kind, so the trampoline that reaches it returns the
\* host's not-supported code.
C15_DefaultIsNotSupported ==
    (call.tramp \in FallibleTramps /\ res.calls = 1) =>
        /\ call.out = PluginErr(NotSupported)
        /\ res.ret.val = to_kernel_errno(NotSupported)

(***************************************************************************)
(* Properties of create on the error path (SpecMem)                        *)
(***************************************************************************)
\* C16: when the plugin's create returns an error, the trampoline returns
\* the host code of that error and writes no host object itself: every
\* object that differs after the call was written by the plugin.
C16_CreateErrorPath ==
    [][(call = NoCall /\ call'.tramp = "create" /\ res'.calls = 1
            /\ call'.out.tag = "Err") =>
          /\ res'.ret = IntRet(to_kernel_errno(call'.out.e))
          /\ \A p \in DOMAIN hostMem :
                hostMem'[p] # hostMem[p] => p \in pwrites']_vars

\* the plugin's create has failed with the not-supported kind without
\* writing anything, behind host objects that have content
C16_Witness ==
    /\ call.tramp = "create"
    /\ call.out = PluginErr("ENOSYS")
    /\ res.calls = 1
    /\ res.ret = IntRet(-38)
    /\ pwrites = {}
    /\ hostMem[call.hargs[3]] = 1

C20_EventuallyReturns ==
    \A t \in Threads :
        (thr[t].pc = "entered") ~>
            (thr[t].pc = "idle" \/ thr[t].cause = "plugin")

(***************************************************************************)
(* Properties of concurrent registration (SpecRegConc)                     *)
(***************************************************************************)
\* the register_self calls made for a name, and those that returned Ok
RegCallsOf(n) == {t \in Threads : rthr[t].pc # "idle" /\ rthr[t].name = n}
RegDone(n) == \A t \in RegCallsOf(n) : rthr[t].pc = "returned"
RegWinners(n) ==
    {t \in RegCallsOf(n) : rthr[t].pc = "returned" /\ rthr[t].r.ok}
EntriesFor(n) == {q \in registry : heap[q].name = n}

\* C19: when two register_self calls for the same name have run
\* concurrently, exactly one has returned Ok and the other Err, and the
\* registry has exactly one entry for the name, the record of the call
\* that succeeded.
C19_ExactlyOneOk ==
    \A n \in Names :
        (Cardinality(RegCallsOf(n)) = 2 /\ RegDone(n)) =>
            /\ Cardinality(RegWinners(n)) = 1
            /\ EntriesFor(n) = {rthr[w].r.v : w \in RegWinners(n)}

\* C19, amended: when two or more register_self calls for the same name
\* have run concurrently, at most one has returned Ok; one has if any of
\* them got its record allocated; the others have returned Err (the name
\* is busy, or there was no memory); and the entries of the registry for
\* the name are exactly the record of the call that succeeded.
C19_AtMostOneOk ==
    \A n \in Names :
        (Cardinality(RegCallsOf(n)) >= 2 /\ RegDone(n)) =>
            /\ Cardinality(RegWinners(n)) =
                  IF \E t \in RegCallsOf(n) : rthr[t].p # NULL THEN 1 ELSE 0
            /\ \A t \in RegCallsOf(n) \ RegWinners(n) :
                  /\ ~rthr[t].r.ok
                  /\ rthr[t].r.e = IF rthr[t].p = NULL THEN "ENOMEM"
                                   ELSE "EBUSY"
            /\ EntriesFor(n) = {rthr[w].r.v : w \in RegWinners(n)}

\* two calls for "rust_ramfs" have run interleaved: the one that allocated
\* its record second has won, the other has got EBUSY
C19_Witness ==
    \E t, u \in Threads :
        /\ rthr[t].pc = "returned" /\ rthr[u].pc = "returned"
        /\ rthr[t].name = "rust_ramfs" /\ rthr[u].name = "rust_ramfs"
        /\ rthr[t].T = rthr[u].T
        /\ rthr[t].p = 1 /\ rthr[u].p = 2
        /\ rthr[u].r = Ok(2)
        /\ rthr[t].r = Err("EBUSY")
        /\ registry = {2}

(***************************************************************************)
(* Properties of mount_callback and fill_super_callback (Spec)             *)
(***************************************************************************)
\* the host helper that belongs to a mount type
HelperOf(mt) ==
    CASE mt = "Single" -> "mount_single"
      [] mt = "BDev"   -> "mount_bdev"
      [] mt = "NoDev"  -> "mount_nodev"
      [] OTHER         -> "none"

\* the dispatch of mount_callback on MOUNT_TYPE: Custom goes to the plugin's
\* mount once and to no host helper, the other three go to their own host
\* helper once, with fill_super_callback::<T>, and never to the plugin
MountDispatched ==
    IF call.mt = "Custom"
    THEN res.calls = 1 /\ res.helpers = <<>>
    ELSE /\ res.calls = 0
         /\ Len(res.helpers) = 1
         /\ res.helpers[1].fn = HelperOf(call.mt)
         /\ res.helpers[1].fill_super = <<"fill_super_callback", call.T>>

\* C21 as stated: whatever its arguments, mount_callback dispatches on the
\* plugin's MOUNT_TYPE: Custom invokes the plugin's mount exactly once and
\* no host helper; Single, BDev and NoDev call exactly mount_single,
\* mount_bdev, mount_nodev once with the fill_super trampoline of the same
\* plugin type and never the plugin's mount.
C21_Dispatch ==
    call.tramp = "mount_callback" => MountDispatched

\* C21 amended: the dispatch happens for a non-null fs_type; with a null
\* fs_type neither the plugin's mount nor any host helper is called.
C21_DispatchNonNull ==
    call.tramp = "mount_callback" =>
        IF call.hargs[1] # NULL
        THEN MountDispatched
        ELSE res.calls = 0 /\ res.helpers = <<>>

\* a BDev plugin T2 was mounted through mount_bdev with its own fill_super
C21_Witness ==
    /\ call.tramp = "mount_callback"
    /\ call.mt = "BDev"
    /\ call.T = "T2"
    /\ call.hargs[1] # NULL
    /\ Len(res.helpers) = 1
    /\ res.helpers[1].fn = "mount_bdev"
    /\ res.helpers[1].fill_super = <<"fill_super_callback", "T2">>

\* C22: the result of mount_callback.  A non-null dentry pointer yielded by
\* the plugin's mount or by the host mount helper is returned as it is (an
\* error-encoded pointer of the helper included); a null pointer from the
\* helper gives -EINVAL and Err(e) from the plugin gives the host code of e,
\* each as the pointer value and never the null pointer.
C22_MountResult ==
    call.tramp = "mount_callback" =>
        /\ (res.calls = 1 /\ call.out.tag = "Ok" /\ call.out.p # NULL) =>
                res.ret = PtrRet(call.out.p)
        /\ (res.calls = 1 /\ call.out.tag = "Err") =>
                /\ res.ret = PtrRet(to_kernel_errno(call.out.e))
                /\ res.ret.val # NULL
        /\ (res.helpers # <<>> /\ call.hostRet # NULL) =>
                res.ret = PtrRet(call.hostRet)
        /\ (res.helpers # <<>> /\ call.hostRet = NULL) =>
                /\ res.ret = PtrRet(to_kernel_errno("EINVAL"))
                /\ res.ret.val # NULL

\* mount_nodev gave the error-encoded pointer -ENOMEM and it was passed on
C22_Witness ==
    /\ call.tramp = "mount_callback"
    /\ call.mt = "NoDev"
    /\ res.helpers # <<>>
    /\ call.hostRet = to_kernel_errno("ENOMEM")
    /\ res.ret = PtrRet(to_kernel_errno("ENOMEM"))

\* C23: a null mount-data pointer is not an error.  fill_super_callback with
\* a non-null superblock and null data invokes the plugin's fill_super once
\* with the empty string as data and returns the translation of its result;
\* it returns -EINVAL without invoking the plugin only for a null superblock.
\* Likewise mount_callback hands the plugin's mount the empty string for a
\* null device name and for null data.
C23_NullDataIsNoError ==
    /\ call.tramp = "fill_super_callback" =>
        /\ (call.hargs[1] # NULL /\ call.sargs[1] = NULL) =>
                /\ res.calls = 1
                /\ res.strs = <<EmptyStr>>
                /\ call.out.tag = "Ok" => res.ret = IntRet(0)
                /\ call.out.tag = "Err" =>
                        res.ret = IntRet(to_kernel_errno(call.out.e))
        /\ res.calls = 0 <=> call.hargs[1] = NULL
        /\ res.calls = 0 => res.ret = IntRet(to_kernel_errno("EINVAL"))
    /\ (call.tramp = "mount_callback" /\ call.mt = "Custom"
            /\ call.hargs[1] # NULL) =>
        /\ res.calls = 1
        /\ call.sargs[1] = NULL => res.strs[1] = EmptyStr
        /\ call.sargs[2] = NULL => res.strs[2] = EmptyStr
        /\ call.out.tag = "Err" =>
                res.ret = PtrRet(to_kernel_errno(call.out.e))

\* fill_super_callback got a superblock and null data, and the plugin's
\* fill_super, called with the empty string, failed with EBUSY
C23_Witness ==
    /\ call.tramp = "fill_super_callback"
    /\ call.hargs[1] # NULL
    /\ call.sargs[1] = NULL
    /\ call.out = PluginErr("EBUSY")
    /\ res.calls = 1
    /\ res.strs = <<EmptyStr>>
    /\ res.ret = IntRet(-16)

(***************************************************************************)
(* Properties of getattr and setattr (SpecAttr)                            *)
(***************************************************************************)
\* C24: when the getattr trampoline has returned 0, every modification the
\* plugin's getattr made to its stat-info argument is present in the host's
\* stat-info object that was passed by pointer, and likewise for the
\* attribute argument of setattr: the plugin works on the host's object.
C24_PluginWritesReachHost ==
    (call.tramp \in {"getattr", "setattr"} /\ res.ret = IntRet(0)) =>
        \A w \in pwrites : hostMem[w[1]] = w[2]

(***************************************************************************)
(* Properties of treedescr! (SpecTree)                                     *)
(***************************************************************************)
\* the element of the produced array at the 0-based index i
DescAt(i) == desc.r.v[i + 1]

\* C25: the array treedescr! produces for n >= 1 declared entries has
\* length n+3: indices 0 and 1 hold blank default descriptors, indices
\* 2 .. n+1 the declared entries in declaration order with their name, file
\* operations and mode, and the last element is the terminator with an
\* empty name; for no declared entries it is the terminator alone.
C25_TreeLayout ==
    (desc.st = "built" /\ desc.r.ok) =>
        LET n == Len(desc.entries)
        IN  IF n >= 1
            THEN /\ Len(desc.r.v) = n + 3
                 /\ DescAt(0) = tree_descr_default
                 /\ DescAt(1) = tree_descr_default
                 /\ \A i \in 2 .. n + 1 :
                        /\ DescAt(i).name = as_char_ptr(desc.entries[i - 1].name)
                        /\ DescAt(i).ops =
                              build_fops(desc.entries[i - 1].ops,
                                         desc.entries[i - 1].ops)
                        /\ DescAt(i).mode = desc.entries[i - 1].mode
                 /\ DescAt(n + 2).name = as_char_ptr("")
                 /\ DescAt(n + 2).ops = NoFops
            ELSE /\ Len(desc.r.v) = 1
                 /\ DescAt(0).name = as_char_ptr("")
                 /\ DescAt(0).ops = NoFops

\* the files of rust_ramfs: file_a with FopsA, then file_b with FopsB
C25_Witness ==
    /\ desc.st = "built"
    /\ desc.r.ok
    /\ Len(desc.entries) = 2
    /\ desc.entries[1].name = "file_a" /\ desc.entries[1].ops = "FopsA"
    /\ desc.entries[2].name = "file_b" /\ desc.entries[2].ops = "FopsB"
    /\ Len(desc.r.v) = 5
    /\ DescAt(3).name = as_char_ptr("file_b")

(***************************************************************************)
(* Properties of rate-limited printing (SpecPrint, SpecPrintLive)          *)
(***************************************************************************)
\* C26: under every interleaving of concurrent invocations of one
\* rate-limited call site, its ratelimit state is initialised (zeroed, then
\* rust_helper_ratelimit_state_init) by exactly one invocation, the single
\* one whose compare-exchange of PRINTK_RS_AVAILABLE from false to true
\* succeeded, and the initialisation code never writes it again.
C26_InitOnce ==
    /\ Cardinality(rl.winners) <= 1
    /\ rl.avail => Cardinality(rl.winners) = 1
    /\ rl.initBy \subseteq rl.winners
    /\ rl.zeroes <= 1
    /\ rl.inits <= 1
    /\ rl.rs = "ready" => (rl.zeroes = 1 /\ rl.inits = 1)
    /\ \A t \in Threads :
        prt[t].pc \in {"zero", "init"} => InvOf(t) \in rl.winners

\* the state is initialised by one invocation while an invocation of
\* another context, whose compare-exchange failed, is under way
C26_Witness ==
    /\ rl.rs = "ready"
    /\ rl.inits = 1
    /\ \E t, u \in Threads :
        /\ t # u
        /\ rl.initBy = {InvOf(t)}
        /\ prt[u].pc = "load1"
        /\ ~prt[u].won

\* C27: ___ratelimit is only ever called with a pointer to the fully
\* initialised ratelimit state: PRINTK_RS_PTR is null until the initialising
\* invocation has finished initialising PRINTK_RS, becomes non-null exactly
\* once and never changes afterwards, under every interleaving.
C27_PtrState ==
    /\ rl.ptr # NULL => (rl.ptr = rs_as_mut_ptr /\ rl.rs = "ready")
    /\ rl.stores <= 1
    /\ rl.stores = 1 => rl.rsAtStore = "ready"
    /\ \A c \in rl.calls : c.p = rs_as_mut_ptr /\ c.rs = "ready"

C27_PtrOnlyAfterInit ==
    /\ []C27_PtrState
    /\ [][rl.ptr # NULL => rl'.ptr = rl.ptr]_vars

\* ___ratelimit has been called on the initialised state by a context that
\* did not initialise it
C27_Witness ==
    /\ rl.stores = 1
    /\ \E t \in Threads :
        /\ prt[t].pc \in {"print", "done"}
        /\ prt[t].ret \in RatelimitAnswers
        /\ ~prt[t].won
        /\ [p |-> rs_as_mut_ptr, rs |-> "ready"] \in rl.calls

\* C28: an invocation that finds PRINTK_RS_PTR null, because another context
\* is still initialising, prints its message without rate limiting; a
\* message is suppressed only when ___ratelimit on the initialised state
\* returned 0; and every invocation completes without waiting for any
\* other context.
C28_Outcome ==
    \A t \in Threads :
        /\ prt[t].sawNull => (prt[t].busy /\ prt[t].ret = NoArg
                                /\ prt[t].pc \in {"print", "done"})
        /\ (prt[t].sawNull /\ prt[t].pc = "done") => prt[t].out = "printed"
        /\ prt[t].out = "suppressed" =>
                /\ prt[t].ret = 0
                /\ [p |-> rs_as_mut_ptr, rs |-> "ready"] \in rl.calls
        /\ prt[t].pc = "done" => prt[t].out \in {"printed", "suppressed"}

C28_PrintsWithoutWaiting ==
    /\ []C28_Outcome
    /\ (prt[1].pc # "idle") ~> (prt[1].pc = "idle")

\* a context printed without rate limiting while the other one was still
\* initialising the state
C28_Witness ==
    \E t, u \in Threads :
        /\ prt[t].pc = "done"
        /\ prt[t].sawNull
        /\ prt[t].out = "printed"
        /\ prt[u].pc \in {"zero", "init"}

(***************************************************************************)
(* Properties of rust_fmt_argument (SpecFmt)                               *)
(***************************************************************************)
\* C29: the writer never writes outside [buf, end).  After any sequence of
\* write_str calls: each call copied min(buf + len, end) - buf bytes (0 once
\* buf had reached or passed end), the total copied is at most
\* max(0, end - initial buf), the position has advanced by the full length
\* of every string, truncated or not, saturating at the maximum address
\* instead of wrapping to 0, and the function returns that final position.
C29_WriterInBounds ==
    fmt.st # "none" =>
        /\ fmt.wrote \subseteq {a \in Addrs : fmt.buf0 <= a /\ a < fmt.end}
        /\ fmt.pieces > 0 =>
                fmt.lastCopied =
                    IF fmt.lastFrom >= fmt.end THEN 0
                    ELSE Min(fmt.lastFrom + fmt.lastLen, fmt.end)
                            - fmt.lastFrom
        /\ fmt.copied <= (IF fmt.end > fmt.buf0 THEN fmt.end - fmt.buf0 ELSE 0)
        /\ fmt.copied = Cardinality(fmt.wrote)
        /\ fmt.buf = Min(fmt.buf0 + fmt.total, MaxAddr)
        /\ fmt.st = "returned" => fmt.ret = fmt.buf

\* a text that was cut at end and whose length carried the position to the
\* maximum address has been written and the position returned
C29_Witness ==
    /\ fmt.st = "returned"
    /\ fmt.buf0 + fmt.total > MaxAddr
    /\ fmt.ret = MaxAddr
    /\ fmt.copied > 0
    /\ fmt.copied < fmt.total

(***************************************************************************)
(* Properties of the life of a registration (SpecLife)                     *)
(***************************************************************************)
\* C30: in every state reachable by register_self, unregister_self and
\* dropping the returned FSHandle, every entry of the host registry refers
\* to a live (not yet freed) filesystem-type record: a record is never freed
\* while it is published, and an unregistered handle never publishes again.
C30_RegistryLive ==
    /\ \A p \in registry : heap[p].live
    /\ \A h \in unregistered : h \notin registry

====
